---- MODULE Spec2Model ----
(***************************************************************************)
(* Extent metadata catalog of the storage emulator                         *)
(* (src/src/common/persistence/LokiExtentMetadata.ts) on top of the        *)
(* in-memory document store it uses (one collection, documents kept in     *)
(* insertion order, each with an internal sequence number $loki, the       *)
(* whole store serialised to one file on save).                            *)
(*                                                                         *)
(* An optional value (a parameter that may be undefined) is a sequence of  *)
(* length 0 or 1: None is undefined, Some(x) is the value x.               *)
(***************************************************************************)
EXTENDS Integers, Sequences, FiniteSets, Bags, TLC

VARIABLES
    initialized,  \* LokiExtentMetadata.initialized
    closed,       \* LokiExtentMetadata.closed
    hasColl,      \* db.getCollection(EXTENTS_COLLECTION) !== null
    data,         \* the collection's documents, in insertion order
    maxId,        \* the collection's last assigned $loki
    dirty,        \* the collection's dirty flag (unsaved changes)
    autosaveOn,   \* the store's autosave timer is running
    disk,         \* the backing file: None, or Some([data, maxId])
    pc,           \* position of init(): "idle", or what it awaits ("stat", "load",
                  \* "save") or resumes with ("resume", "mark")
    cpc,          \* position of close(): "idle", "save" while the store saves,
                  \* "mark" before it resumes
    sav,          \* the save the store was asked for and has not completed: None,
                  \* or Some of what it serialised when it was asked
    ret,          \* the last completed call and what it returned
    en,           \* a client that enumerates the catalog page by page
    acked,        \* extent ids whose descriptor was persisted and acknowledged
    tickSnap,     \* the documents the catalog had when the last completed save or
                  \* autosave was asked for
    atClose,      \* the records present when the last completed close() was
                  \* called, until a later save or autosave writes the file
    now,          \* the wall clock, in milliseconds
    pool,         \* the extent writer pool: per extent id, its append file
    wr,           \* the writers of the higher-level catalogs: where each one is
    appended,     \* the bag of descriptors the completed appends returned
    refs,         \* the descriptors stored in live higher-level records
    gc,           \* the garbage collector's sweep
    svc,          \* the service properties store: per account, its document
    sret,         \* the service-properties response the clients received last,
                  \* until one of them sends its next request
    dflt,         \* the service handler's defaultServiceProperties object
    hs,           \* the service-properties requests in flight: where each one is
    dataStore,    \* the kind of data store the service handler was constructed
                  \* with: None before, then Some("reference") or Some("copy")
    docObj,       \* per account, the object the store keeps as its document
    queue,        \* the messages of the queue, in enqueue order
    nextMsg,      \* the number of messages enqueued so far
    qret,         \* the last queue request and its response
    app,          \* the request listener: None, or its option and its middleware in order
    rq            \* the requests the listener is handling: where each one is

\* The variables of the extent catalog and its clients.
catVars == <<initialized, closed, hasColl, data, maxId, dirty, autosaveOn, disk,
             pc, cpc, sav, ret, en, acked, tickSnap, atClose>>

\* The variables of the writer pool, the reference protocol and the sweep.
protoVars == <<now, pool, wr, appended, refs, gc>>

\* The variables of the blob service handler.
svcVars == <<svc, sret, dflt, hs, dataStore, docObj>>

\* The variables of the queue's message operations.
queueVars == <<queue, nextMsg, qret>>

\* The variables of the request listener.
pipeVars == <<app, rq>>

\* What a step of the pool, the protocol or the sweep leaves as it is.
nonProto == <<svcVars, queueVars, pipeVars>>

\* What an operation of the catalog alone leaves as it is.
otherVars == <<protoVars, svcVars, queueVars, pipeVars>>

vars == <<initialized, closed, hasColl, data, maxId, dirty, autosaveOn, disk,
          pc, cpc, sav, ret, en, acked, tickSnap, atClose, otherVars>>

-----------------------------------------------------------------------------
(* Bounds and input domains *)

\* Cap on the number of inserts (the sequence counter is unbounded in the code).
MaxLoki == 3

None == << >>
Some(x) == << x >>

Ids == {"e1", "e2", "e3"}
IdsSmall == {"e1", "e2"}

Extent(i, d, p, s, lm) ==
    [id |-> i, persistencyId |-> d, path |-> p, size |-> s, LastModifyInMS |-> lm]

\* Inputs of the paging specification: three ids, the first with modification
\* times on both sides of an age threshold.
ExtentsP == { Extent("e1", "d1", "e1", 1, 999), Extent("e1", "d1", "e1", 1, 1000),
              Extent("e2", "d1", "e2", 1, 999), Extent("e3", "d1", "e3", 1, 999) }

\* Inputs of the upsert specification: per id, three extents that differ in
\* placement, size and modification time.
ExtentsU == UNION { { Extent(i, "d1", "p1", 0, 999),
                      Extent(i, "d2", "p2", 1, 1000),
                      Extent(i, "d1", "p2", 1, 2000) } : i \in IdsSmall }

\* Inputs of the listing specification: modification times below, at and
\* above the age thresholds.
ExtentsL == { Extent(i, "d1", i, 1, lm) : i \in IdsSmall, lm \in {999, 1000, 2000} }

\* Inputs of the durability specification.
ExtentsD == { Extent("e1", "d1", "e1", 0, 1000), Extent("e1", "d1", "e1", 1, 1000),
              Extent("e2", "d1", "e2", 0, 1000) }

\* Parameters of the single listExtents calls.
IdFilters == {None, Some("e1")}
Limits == {None, Some(0), Some(1), Some(2)}
Markers == {None, Some(0), Some(1)}
QueryTimes == {None, Some(2000)}
UnmodifiedTimes == {None, Some(0), Some(1)}

\* Filters (id, queryTime, UnmodifiedTime) and limits of the enumerations.
EnumFilters == { <<None, None, None>>, <<None, Some(2000), Some(1)>>,
                 <<Some("e1"), None, None>> }
EnumLimits == {None, Some(1), Some(2)}

-----------------------------------------------------------------------------
(* The document store *)

\* A stored document: the inserted extent plus its sequence number.
Doc(e, k) ==
    [id |-> e.id, persistencyId |-> e.persistencyId, path |-> e.path,
     size |-> e.size, LastModifyInMS |-> e.LastModifyInMS, loki |-> k]

\* The record of a document as callers see it (no sequence number).
Rec(d) == Extent(d.id, d.persistencyId, d.path, d.size, d.LastModifyInMS)

Records(ds) == { Rec(ds[i]) : i \in 1..Len(ds) }
IdsOf(ds) == { ds[i].id : i \in 1..Len(ds) }

RECURSIVE Filter(_, _)
\* The documents of ds, in order, whose index is in keep.
Filter(ds, keep) ==
    IF ds = << >> THEN << >>
    ELSE LET rest == Filter(Tail(ds), { i - 1 : i \in keep \ {1} })
         IN  IF 1 \in keep THEN << Head(ds) >> \o rest ELSE rest

\* coll.findOne({ id }): the first document with that id, or None (null).
FindOne(ds, i) ==
    LET hit == { k \in 1..Len(ds) : ds[k].id = i }
    IN  IF hit = {} THEN None
        ELSE Some(ds[CHOOSE k \in hit : \A j \in hit : k <= j])

\* coll.insert(extent): the next sequence number, appended.
Insert(ds, mx, e) == ds \o << Doc(e, mx + 1) >>

\* An update that overwrites the placement too.
UpdateDocAllFields(d, e) ==
    [d EXCEPT !.size = e.size, !.LastModifyInMS = e.LastModifyInMS,
              !.persistencyId = e.persistencyId, !.path = e.path]

\* doc.size = ...; doc.LastModifyInMS = ...; coll.update(doc): in place.
UpdateDoc(d, e) == [d EXCEPT !.size = e.size, !.LastModifyInMS = e.LastModifyInMS]

\* A removal by position that takes the last document when none has the id
\* (splice at index -1).
FindAndRemoveSplice(ds, i) ==
    IF \E k \in 1..Len(ds) : ds[k].id = i
    THEN Filter(ds, { k \in 1..Len(ds) : ds[k].id # i })
    ELSE Filter(ds, 1..(Len(ds) - 1))

\* coll.findAndRemove({ id }): every document with the id is removed.
FindAndRemove(ds, i) == Filter(ds, { k \in 1..Len(ds) : ds[k].id # i })

\* A marker comparison that skips the document right after the marker.
LokiGtSkipsOne(k, marker) == IF marker = None THEN TRUE ELSE k > marker[1] + 1

\* A marker comparison that lets the marker's own document through ($gte).
LokiGte(k, marker) == IF marker = None THEN TRUE ELSE k >= marker[1]

\* { $gt: marker }: an undefined bound sorts below every number.
LokiGt(k, marker) == IF marker = None THEN TRUE ELSE k > marker[1]

\* An age filter that lets the boundary through ($lte for $lt).
AgeOkInclusive(lm, queryTime, unmodified) ==
    IF queryTime = None THEN TRUE
    ELSE lm <= queryTime[1] - unmodified * 1000

\* { $lt: queryTime.getTime() - UnmodifiedTime * 1000 }
AgeOk(lm, queryTime, unmodified) ==
    IF queryTime = None THEN TRUE
    ELSE lm < queryTime[1] - unmodified * 1000

DefaultMaxResults == 5000

\* The query object of listExtents applied to one document.
Matches(d, id, marker, queryTime, UnmodifiedTime) ==
    LET ut == IF UnmodifiedTime = None THEN 0 ELSE UnmodifiedTime[1]
    IN  /\ (id # None => d.id = id[1])
        /\ AgeOk(d.LastModifyInMS, queryTime, ut)
        /\ LokiGt(d.loki, marker)

\* A limit that keeps one document fewer than asked for.
FindLimitShort(ds, id, maxResults, marker, queryTime, UnmodifiedTime) ==
    LET all == Filter(ds, { k \in 1..Len(ds) :
                            Matches(ds[k], id, marker, queryTime, UnmodifiedTime) })
    IN  IF Len(all) < maxResults THEN all ELSE SubSeq(all, 1, maxResults - 1)

\* chain().find(query).limit(maxResults).data()
FindLimit(ds, id, maxResults, marker, queryTime, UnmodifiedTime) ==
    LET all == Filter(ds, { k \in 1..Len(ds) :
                            Matches(ds[k], id, marker, queryTime, UnmodifiedTime) })
    IN  IF Len(all) <= maxResults THEN all ELSE SubSeq(all, 1, maxResults)

\* listExtents with the fullness test off by one (<= for <): a full page gets
\* no nextMarker.
listExtentsFullIsLast(ds, coll, id, maxResults, marker, queryTime, UnmodifiedTime) ==
    LET mr   == IF maxResults = None THEN DefaultMaxResults ELSE maxResults[1]
        docs == FindLimit(ds, id, mr, marker, queryTime, UnmodifiedTime)
    IN  IF ~coll THEN [err |-> "TypeError", docs |-> << >>, next |-> None]
        ELSE IF Len(docs) <= mr THEN [err |-> "", docs |-> docs, next |-> None]
        ELSE [err |-> "", docs |-> docs, next |-> Some(docs[Len(docs)].loki)]

\* The pair listExtents returns, or the error it throws.
listExtents(ds, coll, id, maxResults, marker, queryTime, UnmodifiedTime) ==
    LET mr   == IF maxResults = None THEN DefaultMaxResults ELSE maxResults[1]
        docs == FindLimit(ds, id, mr, marker, queryTime, UnmodifiedTime)
    IN  IF ~coll THEN [err |-> "TypeError", docs |-> << >>, next |-> None]
        ELSE IF Len(docs) < mr THEN [err |-> "", docs |-> docs, next |-> None]
        ELSE IF Len(docs) = 0 THEN [err |-> "TypeError", docs |-> << >>, next |-> None]
        ELSE [err |-> "", docs |-> docs, next |-> Some(docs[Len(docs)].loki)]

-----------------------------------------------------------------------------
(* Results *)

NoQuery == [id |-> None, maxResults |-> None, marker |-> None,
            queryTime |-> None, UnmodifiedTime |-> None]

\* op: the call; id, ext, q: its arguments; err: the error thrown ("" for none);
\* pid: the string returned; docs: the documents listExtents returned or
\* deleteExtent removed; next: the nextMarker listExtents returned.
NoRet == [op |-> "none", id |-> "", ext |-> None, q |-> NoQuery, err |-> "",
          pid |-> "", docs |-> << >>, next |-> None]

Ret(op, id, err) == [NoRet EXCEPT !.op = op, !.id = id, !.err = err]

EnOff == [st |-> "off", id |-> None, mr |-> None, qt |-> None, ut |-> None,
          marker |-> None, start |-> {}, got |-> {}, touched |-> {},
          quiet |-> TRUE, pages |-> << >>]

-----------------------------------------------------------------------------
(* The extent writer pool, the writers and deleters of the higher-level
   catalogs, and the garbage collector *)

\* Cap on the number of clock advances (time is unbounded).
MaxClock == 2

Writers == {"w1", "w2"}

\* Byte counts of the appends.
Counts == {1, 2}

\* The destination's budget of open append files.
MaxConcurrency == 2

\* A file whose size exceeds the threshold after an append is closed and
\* evicted from the pool.
RotateThreshold == 1

\* The age, in seconds, below which the sweep leaves an extent alone (1 hour).
GcUnmodifiedTime == 3600

\* The number of extents in one batch of the sweep's iteration.
GcBatch == 1

\* One advance of the clock: the length of the unmodified window.
TickMs == GcUnmodifiedTime * 1000

Descriptor(i, o, c) == [extentId |-> i, offset |-> o, count |-> c]

\* The extent ids that a set of descriptors refers to.
RefIds(ds) == { d.extentId : d \in ds }

\* st: "none" (the id is not in use), "open" (an append file of the pool),
\* "closed" (rotated or evicted); lock: the writer that holds the writer lock.
NoFile == [st |-> "none", size |-> 0, lock |-> None]

\* pc: "idle", "locked" (append in progress, lock held), "appended" (descriptor
\* returned), "persisted" (descriptor stored, client not yet acknowledged).
WrIdle == [pc |-> "idle", ext |-> "", offset |-> 0, count |-> 0]

GcOff == [st |-> "idle", snap |-> {}, marker |-> None, cand |-> << >>,
          last |-> FALSE, t0 |-> 0, removed |-> {}]

Accounts == {"devstoreaccount1", "account2"}

\* Results of the service-properties and of the queue requests.
\* op: the handler; account, req: its input; before: the document the handler
\* was handed, as it was before the handler assigned to it; status, res: the
\* response.
NoSret == [op |-> "none", account |-> "", req |-> None, before |-> None,
           status |-> 0, res |-> None]

\* The service-properties requests handled at one time.
Calls == {"c1", "c2"}

\* The data stores: one hands out the object it keeps, the other a copy.
StoreKinds == {"reference", "copy"}

\* The names of the objects of one account that the store keeps and that the
\* calls in flight were handed; NoObj stands for no object and for one that
\* nobody else holds.
ObjIds == 1..2
NoObj == 0

\* pos: "idle", or the await the handler is at: "parse" (of the body), "read"
\* (of the stored document), "update" (of the store); cur, obj: the document
\* the handler was handed, as it is now, and the object that holds it (after
\* the handler's own merge: the document as it was before, and no object).
NoCall == [op |-> "none", account |-> "", req |-> None, pos |-> "idle",
           cur |-> None, obj |-> NoObj]

NoQret == [op |-> "none", text |-> None, ttl |-> None, vis |-> None, n |-> None,
           err |-> "", items |-> << >>]

-----------------------------------------------------------------------------
\* The requests in flight at one time.
Reqs == {"r1", "r2"}

\* A request: st is "none" before it arrives, "run" while a middleware is to
\* run, "done" after the last one; pos is the middleware to run; err tells
\* whether an error is being passed on; trace lists the stages that ran;
\* failed is the first stage that passed an error on ("" for none).
NoReq == [st |-> "none", pos |-> 0, err |-> FALSE, trace |-> << >>, failed |-> ""]

\* The blob service handler's default properties. BLOB_API_VERSION is the
\* emulator's API version (a constant of utils/constants).
BLOB_API_VERSION == "BLOB_API_VERSION"

Metrics(on) ==
    [enabled |-> on, retentionPolicy |-> [enabled |-> FALSE], version |-> "1.0"]

Logging(del, rd, wrt) ==
    [deleteProperty |-> del, read |-> rd, retentionPolicy |-> [enabled |-> FALSE],
     version |-> "1.0", write |-> wrt]

Properties(cors, dsv, drp, hm, lg, mm, sw) ==
    [cors |-> cors, defaultServiceVersion |-> dsv, deleteRetentionPolicy |-> drp,
     hourMetrics |-> hm, logging |-> lg, minuteMetrics |-> mm, staticWebsite |-> sw]

defaultServiceProperties ==
    Properties(Some(<< >>), Some(BLOB_API_VERSION), None, Some(Metrics(FALSE)),
               Some(Logging(TRUE, TRUE, TRUE)), Some(Metrics(FALSE)),
               Some([enabled |-> FALSE]))

Init ==
    /\ initialized = FALSE
    /\ closed = FALSE
    /\ hasColl = FALSE
    /\ data = << >>
    /\ maxId = 0
    /\ dirty = FALSE
    /\ autosaveOn = TRUE
    /\ disk = None
    /\ pc = "idle"
    /\ cpc = "idle"
    /\ sav = None
    /\ ret = NoRet
    /\ en = EnOff
    /\ acked = {}
    /\ tickSnap = << >>
    /\ atClose = None
    /\ now = 0
    /\ pool = [i \in Ids |-> NoFile]
    /\ wr = [w \in Writers |-> WrIdle]
    /\ appended = EmptyBag
    /\ refs = {}
    /\ gc = GcOff
    /\ svc = [a \in Accounts |-> None]
    /\ sret = NoSret
    /\ dflt = defaultServiceProperties
    /\ hs = [c \in Calls |-> NoCall]
    /\ dataStore = None
    /\ docObj = [a \in Accounts |-> NoObj]
    /\ queue = << >>
    /\ nextMsg = 0
    /\ qret = NoQret
    /\ app = None
    /\ rq = [r \in Reqs |-> NoReq]

-----------------------------------------------------------------------------
(* init() and close(). Both are async: each await hands control back, so the
   callbacks of stat, loadDatabase, saveDatabase and close, and what follows
   each await, run as steps of their own, with any other call of the catalog
   between them. *)

\* The file's content after saveDatabase: the serialised collection.
Serialized(ds, mx) == Some([data |-> ds, maxId |-> mx])

\* An init that never loads the file.
LoadSkipped(d, ds, mx) == [data |-> ds, maxId |-> mx]

\* The collection after init's stat and load: the file's when the file exists,
\* else the one in memory (ds, mx).
Loaded(d, ds, mx) ==
    IF d # None THEN [data |-> d[1].data, maxId |-> d[1].maxId]
    ELSE [data |-> ds, maxId |-> mx]

\* A store constructed without autosave: a tick writes nothing.
AutoSavedNever(d, ds, mx, isDirty) == d

\* The file after a tick of the autosave timer the constructor configures: a
\* dirty store is written.
AutoSaved(d, ds, mx, isDirty) == IF isDirty THEN Serialized(ds, mx) ELSE d

\* The file after db.close(): a dirty store is written before it closes.
CloseSaved(d, ds, mx, isDirty) == IF isDirty THEN Serialized(ds, mx) ELSE d

\* What the store remembers of a save it was asked for: the file it will write
\* (serialised when it was asked) and the documents and records it then held.
\* The dirty flag is cleared when the save is asked for and nothing restores it
\* when the save fails.
Snapshot(file, ds, coll) ==
    Some([file |-> file, docs |-> ds,
          recs |-> IF coll THEN Some(Records(ds)) ELSE None])

\* init() is called while no init() or close() is under way: it asks for the
\* file's status and waits (lines 42-44).
InitBegin ==
    /\ UNCHANGED otherVars
    /\ pc = "idle" /\ cpc = "idle"
    /\ pc' = "stat"
    /\ UNCHANGED <<initialized, closed, hasColl, data, maxId, dirty, autosaveOn,
                   disk, cpc, sav, ret, en, acked, tickSnap, atClose>>

\* The status arrives (lines 44-56): the store is asked to load a file that
\* exists, and a missing file is ignored.
InitStat ==
    /\ UNCHANGED otherVars
    /\ pc = "stat"
    /\ pc' = IF disk # None THEN "load" ELSE "resume"
    /\ UNCHANGED <<initialized, closed, hasColl, data, maxId, dirty, autosaveOn,
                   disk, cpc, sav, ret, en, acked, tickSnap, atClose>>

\* The load completes (lines 46-52): the file's collection replaces the one in
\* memory, whatever was done to that one in the meantime, or the load fails
\* and init() rejects.
InitLoaded(loadOk) ==
    /\ UNCHANGED otherVars
    /\ pc = "load"
    /\ IF loadOk
       THEN /\ hasColl' = TRUE
            /\ data' = Loaded(disk, data, maxId).data
            /\ maxId' = Loaded(disk, data, maxId).maxId
            /\ dirty' = FALSE
            /\ pc' = "resume"
            /\ UNCHANGED ret
       ELSE /\ ret' = Ret("init", "", "dbError")
            /\ pc' = "idle"
            /\ UNCHANGED <<hasColl, data, maxId, dirty>>
    /\ UNCHANGED <<initialized, closed, autosaveOn, disk, cpc, sav, en, acked,
                   tickSnap, atClose>>

\* init() resumes after its first await (lines 60-68): it creates the
\* collection when there is none and asks the store to save, which serialises
\* the collection and clears the dirty flag at once.
InitResume ==
    /\ UNCHANGED otherVars
    /\ pc = "resume"
    /\ hasColl' = TRUE
    /\ sav' = Snapshot(Serialized(data, maxId), data, TRUE)
    /\ dirty' = FALSE
    /\ pc' = "save"
    /\ UNCHANGED <<initialized, closed, data, maxId, autosaveOn, disk, cpc, ret,
                   en, acked, tickSnap, atClose>>

\* An init that goes on to set its flags whether or not the save went through.
InitSavedMarksAlways(saveOk) ==
    /\ UNCHANGED otherVars
    /\ pc = "save"
    /\ pc' = "mark"
    /\ sav' = None
    /\ IF saveOk
       THEN /\ disk' = sav[1].file
            /\ tickSnap' = sav[1].docs
            /\ atClose' = None
            /\ UNCHANGED ret
       ELSE /\ ret' = Ret("init", "", "saveError")
            /\ UNCHANGED <<disk, tickSnap, atClose>>
    /\ UNCHANGED <<initialized, closed, hasColl, data, maxId, dirty, autosaveOn,
                   cpc, en, acked>>

\* The save init() asked for completes (lines 68-74): the file holds what was
\* serialised when it was asked for, or the save fails, the file is as before,
\* the dirty flag stays as it is (cleared, unless the catalog was changed
\* since) and init() rejects.
InitSaved(saveOk) ==
    /\ UNCHANGED otherVars
    /\ pc = "save"
    /\ sav' = None
    /\ IF saveOk
       THEN /\ disk' = sav[1].file
            /\ tickSnap' = sav[1].docs
            /\ atClose' = None
            /\ pc' = "mark"
            /\ UNCHANGED ret
       ELSE /\ ret' = Ret("init", "", "saveError")
            /\ pc' = "idle"
            /\ UNCHANGED <<disk, tickSnap, atClose>>
    /\ UNCHANGED <<initialized, closed, hasColl, data, maxId, dirty, autosaveOn,
                   cpc, en, acked>>

\* init() resumes after its second await (lines 77-78) and sets its flags.
InitMark ==
    /\ UNCHANGED otherVars
    /\ pc = "mark"
    /\ initialized' = TRUE
    /\ closed' = FALSE
    /\ pc' = "idle"
    /\ ret' = Ret("init", "", "")
    /\ UNCHANGED <<hasColl, data, maxId, dirty, autosaveOn, disk, cpc, sav, en,
                   acked, tickSnap, atClose>>

\* close() is called while no init() or close() is under way (lines 87-89): the
\* store stops its autosave timer and, when it is dirty, serialises the
\* collection, clears the dirty flag and starts to save; when it is not, it
\* calls back at once. close() resumes in a later turn either way.
CloseBegin ==
    /\ UNCHANGED otherVars
    /\ pc = "idle" /\ cpc = "idle"
    /\ autosaveOn' = FALSE
    /\ sav' = Snapshot(CloseSaved(disk, data, maxId, dirty), data, hasColl)
    /\ dirty' = FALSE
    /\ cpc' = IF dirty THEN "save" ELSE "mark"
    /\ UNCHANGED <<initialized, closed, hasColl, data, maxId, disk, pc, ret, en,
                   acked, tickSnap, atClose>>

\* The save of close() completes (lines 89-95): the file holds what was
\* serialised when close() was called, or the save fails, the file is as
\* before, the dirty flag stays as it is (cleared, unless the catalog was
\* changed since) and close() rejects.
CloseWritten(saveOk) ==
    /\ UNCHANGED otherVars
    /\ cpc = "save"
    /\ IF saveOk
       THEN /\ disk' = sav[1].file
            /\ tickSnap' = sav[1].docs
            /\ atClose' = None
            /\ cpc' = "mark"
            /\ UNCHANGED <<sav, ret>>
       ELSE /\ sav' = None
            /\ ret' = Ret("close", "", "saveError")
            /\ cpc' = "idle"
            /\ UNCHANGED <<disk, tickSnap, atClose>>
    /\ UNCHANGED <<initialized, closed, hasColl, data, maxId, dirty, autosaveOn,
                   pc, en, acked>>

\* close() resumes after its await (line 98) and sets its flag.
CloseMark ==
    /\ UNCHANGED otherVars
    /\ cpc = "mark"
    /\ closed' = TRUE
    /\ cpc' = "idle"
    /\ sav' = None
    /\ atClose' = IF sav[1].recs # None THEN sav[1].recs ELSE atClose
    /\ ret' = Ret("close", "", "")
    /\ UNCHANGED <<initialized, hasColl, data, maxId, dirty, autosaveOn, disk,
                   pc, en, acked, tickSnap>>

\* The autosave timer set up by the constructor fires while the store has no
\* other save under way: a dirty store clears its dirty flag and is saved. A
\* save that fails leaves the file as it was and the flag cleared, so the next
\* tick has nothing to save until the catalog changes again.
AutosaveTick(saveOk) ==
    /\ UNCHANGED otherVars
    /\ autosaveOn
    /\ sav = None
    /\ disk' = IF saveOk THEN AutoSaved(disk, data, maxId, dirty) ELSE disk
    /\ dirty' = FALSE
    /\ tickSnap' = IF dirty /\ saveOk THEN data ELSE tickSnap
    /\ atClose' = IF dirty /\ saveOk THEN None ELSE atClose
    /\ UNCHANGED <<initialized, closed, hasColl, data, maxId, autosaveOn, pc,
                   cpc, sav, ret, en, acked>>

\* The process dies and a new one constructs the catalog for the same path:
\* memory is lost, the file stays.
Crash ==
    /\ UNCHANGED otherVars
    /\ initialized' = FALSE
    /\ closed' = FALSE
    /\ hasColl' = FALSE
    /\ data' = << >>
    /\ maxId' = 0
    /\ dirty' = FALSE
    /\ autosaveOn' = TRUE
    /\ pc' = "idle"
    /\ cpc' = "idle"
    /\ sav' = None
    /\ ret' = Ret("crash", "", "")
    /\ en' = EnOff
    /\ UNCHANGED <<disk, acked, tickSnap, atClose>>

-----------------------------------------------------------------------------
(* Catalog operations *)

\* What a running enumeration has to remember of a mutation: the ids whose
\* record was removed or had its modification time changed. The pages are
\* recorded only for an enumeration that no mutation interleaves with, and a
\* finished enumeration is remembered until the catalog next changes.
EnTouch(ids) ==
    IF en.st = "on"
    THEN [en EXCEPT !.touched = @ \cup ids, !.quiet = FALSE, !.pages = << >>]
    ELSE EnOff

\* An updateExtent that replaces an existing document by a new one.
UpsertReinserts(ds, mx, e) == Insert(FindAndRemove(ds, e.id), mx, e)

\* An updateExtent that inserts without looking for the id first.
UpsertNoFind(ds, mx, e) == Insert(ds, mx, e)

\* The documents after updateExtent(e) on a collection that exists.
Upsert(ds, mx, e) ==
    LET doc == FindOne(ds, e.id)
    IN  IF doc = None THEN Insert(ds, mx, e)
        ELSE [k \in 1..Len(ds) |-> IF ds[k].loki = doc[1].loki
                                   THEN UpdateDoc(ds[k], e) ELSE ds[k]]

updateExtent(e) ==
    IF ~hasColl
    THEN /\ ret' = [Ret("updateExtent", e.id, "TypeError") EXCEPT !.ext = Some(e)]
         /\ UNCHANGED <<data, maxId, dirty, en>>
    ELSE LET doc == FindOne(data, e.id)
         IN  /\ doc = None => maxId < MaxLoki
             /\ data' = Upsert(data, maxId, e)
             /\ maxId' = IF doc = None THEN maxId + 1 ELSE maxId
             /\ dirty' = TRUE
             /\ en' = IF doc # None /\ doc[1].LastModifyInMS # e.LastModifyInMS
                      THEN EnTouch({e.id})
                      ELSE EnTouch({})
             /\ ret' = [Ret("updateExtent", e.id, "") EXCEPT !.ext = Some(e)]

UpdateExtent(e) ==
    /\ UNCHANGED otherVars
    /\ updateExtent(e)
    /\ UNCHANGED <<initialized, closed, hasColl, autosaveOn, disk, pc, cpc, sav, acked,
                   tickSnap, atClose>>

deleteExtent(extentId) ==
    IF ~hasColl
    THEN /\ ret' = Ret("deleteExtent", extentId, "TypeError")
         /\ UNCHANGED <<data, dirty, en>>
    ELSE /\ data' = FindAndRemove(data, extentId)
         /\ dirty' = IF extentId \in IdsOf(data) THEN TRUE ELSE dirty
         /\ en' = IF extentId \in IdsOf(data) THEN EnTouch({extentId}) ELSE en
         /\ ret' = [Ret("deleteExtent", extentId, "") EXCEPT
                      !.docs = Filter(data, { k \in 1..Len(data) :
                                               data[k].id = extentId })]

DeleteExtent(extentId) ==
    /\ UNCHANGED otherVars
    /\ deleteExtent(extentId)
    /\ UNCHANGED <<initialized, closed, hasColl, maxId, autosaveOn, disk, pc, cpc, sav,
                   acked, tickSnap, atClose>>

\* The string getExtentPersistencyId returns, or the error it throws.
getExtentPersistencyId(ds, coll, extentId) ==
    LET doc == FindOne(ds, extentId)
    IN  IF ~coll \/ doc = None
        THEN [err |-> "TypeError", pid |-> ""]
        ELSE [err |-> "", pid |-> doc[1].persistencyId]

GetExtentPersistencyId(extentId) ==
    /\ UNCHANGED otherVars
    /\ LET r == getExtentPersistencyId(data, hasColl, extentId)
       IN  ret' = [Ret("getExtentPersistencyId", extentId, r.err) EXCEPT !.pid = r.pid]
    /\ UNCHANGED <<initialized, closed, hasColl, data, maxId, dirty, autosaveOn,
                   disk, pc, cpc, sav, en, acked, tickSnap, atClose>>

ListRet(q, r) ==
    [NoRet EXCEPT !.op = "listExtents", !.q = q, !.err = r.err,
                  !.docs = r.docs, !.next = r.next]

Query(id, maxResults, marker, queryTime, UnmodifiedTime) ==
    [id |-> id, maxResults |-> maxResults, marker |-> marker,
     queryTime |-> queryTime, UnmodifiedTime |-> UnmodifiedTime]

ListExtents(id, maxResults, marker, queryTime, UnmodifiedTime) ==
    /\ UNCHANGED otherVars
    /\ ret' = ListRet(Query(id, maxResults, marker, queryTime, UnmodifiedTime),
                      listExtents(data, hasColl, id, maxResults, marker,
                                  queryTime, UnmodifiedTime))
    /\ UNCHANGED <<initialized, closed, hasColl, data, maxId, dirty, autosaveOn,
                   disk, pc, cpc, sav, en, acked, tickSnap, atClose>>

-----------------------------------------------------------------------------
(* A client that pages through the catalog: listExtents with no marker, then
   listExtents with the previous nextMarker, same filter and limit, until no
   nextMarker comes back. *)

\* The ids of the documents a filter selects, whatever the marker and limit.
MatchingIds(ds, id, queryTime, UnmodifiedTime) ==
    { ds[k].id : k \in { j \in 1..Len(ds) :
                         Matches(ds[j], id, None, queryTime, UnmodifiedTime) } }

Page(r) == [n |-> Len(r.docs), next |-> r.next]

EnumBegin(id, maxResults, queryTime, UnmodifiedTime) ==
    /\ UNCHANGED otherVars
    /\ en.st # "on"
    /\ hasColl
    /\ LET r == listExtents(data, hasColl, id, maxResults, None, queryTime,
                            UnmodifiedTime)
       IN  /\ r.err = ""
           /\ en' = [st |-> IF r.next = None THEN "done" ELSE "on",
                     id |-> id, mr |-> maxResults, qt |-> queryTime,
                     ut |-> UnmodifiedTime, marker |-> r.next,
                     start |-> MatchingIds(data, id, queryTime, UnmodifiedTime),
                     got |-> IdsOf(r.docs), touched |-> {}, quiet |-> TRUE,
                     pages |-> << Page(r) >>]
           /\ ret' = ListRet(Query(id, maxResults, None, queryTime, UnmodifiedTime), r)
    /\ UNCHANGED <<initialized, closed, hasColl, data, maxId, dirty, autosaveOn,
                   disk, pc, cpc, sav, acked, tickSnap, atClose>>

EnumNext ==
    /\ UNCHANGED otherVars
    /\ en.st = "on"
    /\ LET r == listExtents(data, hasColl, en.id, en.mr, en.marker, en.qt, en.ut)
       IN  /\ r.err = ""
           /\ en' = [en EXCEPT !.st = IF r.next = None THEN "done" ELSE "on",
                               !.marker = r.next,
                               !.got = @ \cup IdsOf(r.docs),
                               !.pages = IF en.quiet THEN Append(@, Page(r)) ELSE @]
           /\ ret' = ListRet(Query(en.id, en.mr, en.marker, en.qt, en.ut), r)
    /\ UNCHANGED <<initialized, closed, hasColl, data, maxId, dirty, autosaveOn,
                   disk, pc, cpc, sav, acked, tickSnap, atClose>>

-----------------------------------------------------------------------------
(* The writer of a higher-level catalog: after the extent is recorded, the
   descriptor is persisted and the client is acknowledged. *)
Acknowledge(extentId) ==
    /\ UNCHANGED otherVars
    /\ initialized /\ ~closed /\ pc = "idle"
    /\ extentId \in IdsOf(data)
    /\ extentId \notin acked
    /\ acked' = acked \cup {extentId}
    /\ UNCHANGED <<initialized, closed, hasColl, data, maxId, dirty, autosaveOn,
                   disk, pc, cpc, sav, ret, en, tickSnap, atClose>>

-----------------------------------------------------------------------------
(* The extent writer pool: append(bytes) takes the writer lock of an open
   file, or creates a file when the budget allows, appends at the file's size
   and releases the lock. *)

\* What a step that leaves the catalog's documents alone keeps of the catalog.
catFrame == <<initialized, closed, hasColl, autosaveOn, disk, pc, cpc, sav, acked,
              tickSnap, atClose>>

OpenFiles(pl) == { i \in DOMAIN pl : pl[i].st = "open" }

\* A pool that hands out a file whose writer lock is held.
CanAcquireLocked(pl, i) == pl[i].st = "open"

\* An idle open file: its writer lock is free.
CanAcquire(pl, i) == pl[i].st = "open" /\ pl[i].lock = None

\* A new file may be opened for an id that is not in use.
CanCreate(pl, i) ==
    pl[i].st = "none" /\ Cardinality(OpenFiles(pl)) < MaxConcurrency

\* append, first half: writer w gets the lock of file i (creating the file and
\* registering it in the catalog with size 0 when it is new) and reads the
\* offset, the file's size.
AppendBegin(w, i, n) ==
    /\ UNCHANGED nonProto
    /\ wr[w].pc = "idle"
    /\ \/ /\ CanAcquire(pool, i)
          /\ pool' = [pool EXCEPT ![i].lock = Some(w)]
          /\ UNCHANGED <<data, maxId, dirty, ret, en>>
       \/ /\ CanCreate(pool, i)
          /\ pool' = [pool EXCEPT ![i] = [st |-> "open", size |-> 0, lock |-> Some(w)]]
          /\ updateExtent(Extent(i, "d1", i, 0, now))
    /\ wr' = [wr EXCEPT ![w] = [pc |-> "locked", ext |-> i,
                                offset |-> pool[i].size, count |-> n]]
    /\ UNCHANGED <<catFrame, now, appended, refs, gc>>

\* append, second half: the bytes are written, the size and the modification
\* time are recorded, the lock is released and the descriptor returned; a file
\* past the rotation threshold is closed. A write error closes the file and
\* returns no descriptor; the catalog row stays.
AppendEnd(w, ok) ==
    /\ UNCHANGED nonProto
    /\ wr[w].pc = "locked"
    /\ LET i    == wr[w].ext
           size == wr[w].offset + wr[w].count
       IN  IF ok
           THEN /\ pool' = [pool EXCEPT ![i] =
                              [st |-> IF size > RotateThreshold THEN "closed" ELSE "open",
                               size |-> size, lock |-> None]]
                /\ updateExtent(Extent(i, "d1", i, size, now))
                /\ appended' = appended (+) SetToBag({Descriptor(i, wr[w].offset, wr[w].count)})
                /\ wr' = [wr EXCEPT ![w].pc = "appended"]
           ELSE /\ pool' = [pool EXCEPT ![i].st = "closed", ![i].lock = None]
                /\ wr' = [wr EXCEPT ![w] = WrIdle]
                /\ UNCHANGED <<data, maxId, dirty, ret, en, appended>>
    /\ UNCHANGED <<catFrame, now, refs, gc>>

-----------------------------------------------------------------------------
(* The reference protocol: a writer appends, stores the descriptor in its
   catalog, then acknowledges the client; a deleter removes references. *)

PersistDescriptor(w) ==
    /\ UNCHANGED nonProto
    /\ wr[w].pc = "appended"
    /\ refs' = refs \cup {Descriptor(wr[w].ext, wr[w].offset, wr[w].count)}
    /\ wr' = [wr EXCEPT ![w].pc = "persisted"]
    /\ UNCHANGED <<catVars, now, pool, appended, gc>>

AcknowledgeClient(w) ==
    /\ UNCHANGED nonProto
    /\ wr[w].pc = "persisted"
    /\ wr' = [wr EXCEPT ![w] = WrIdle]
    /\ UNCHANGED <<catVars, now, pool, appended, refs, gc>>

Dereference(d) ==
    /\ UNCHANGED nonProto
    /\ d \in refs
    /\ refs' = refs \ {d}
    /\ UNCHANGED <<catVars, now, pool, wr, appended, gc>>

Tick ==
    /\ UNCHANGED nonProto
    /\ now < MaxClock * TickMs
    /\ now' = now + TickMs
    /\ UNCHANGED <<catVars, pool, wr, appended, refs, gc>>

-----------------------------------------------------------------------------
(* The garbage collector's sweep: collect the referenced extent ids, then go
   through the catalog in batches of extents older than the unmodified window
   and delete those that are not in the collected set. The other handlers run
   between its steps. *)

\* The ids of a batch that the sweep will delete, in the batch's order.
Candidates(docs, snap) ==
    LET unref == Filter(docs, { k \in 1..Len(docs) : docs[k].id \notin snap })
    IN  [k \in 1..Len(unref) |-> unref[k].id]

\* The timer fires; a fire while a sweep is in progress is dropped.
GcBegin ==
    /\ UNCHANGED nonProto
    /\ gc.st # "run"
    /\ gc' = [GcOff EXCEPT !.st = "run", !.snap = RefIds(refs), !.t0 = now]
    /\ UNCHANGED <<catVars, now, pool, wr, appended, refs>>

\* The next batch of the iteration: listExtents from the marker, with the
\* current time and the unmodified window.
GcList ==
    /\ UNCHANGED nonProto
    /\ gc.st = "run"
    /\ gc.cand = << >>
    /\ ~gc.last
    /\ LET r == listExtents(data, hasColl, None, Some(GcBatch), gc.marker,
                            Some(now), Some(GcUnmodifiedTime))
       IN  /\ r.err = ""
           /\ gc' = [gc EXCEPT !.cand = Candidates(r.docs, gc.snap),
                               !.marker = r.next,
                               !.last = (r.next = None)]
           /\ ret' = ListRet(Query(None, Some(GcBatch), gc.marker, Some(now),
                                   Some(GcUnmodifiedTime)), r)
    /\ UNCHANGED <<catFrame, data, maxId, dirty, en, now, pool, wr, appended, refs>>

\* The sweep deletes the row of the batch's next candidate.
GcDelete ==
    /\ UNCHANGED nonProto
    /\ gc.st = "run"
    /\ gc.cand # << >>
    /\ deleteExtent(Head(gc.cand))
    /\ gc' = [gc EXCEPT !.cand = Tail(@), !.removed = @ \cup {Head(gc.cand)}]
    /\ UNCHANGED <<catFrame, maxId, now, pool, wr, appended, refs>>

\* The iteration is over and the last batch is done with.
GcEnd ==
    /\ UNCHANGED nonProto
    /\ gc.st = "run"
    /\ gc.cand = << >>
    /\ gc.last
    /\ gc' = [gc EXCEPT !.st = "done"]
    /\ UNCHANGED <<catVars, now, pool, wr, appended, refs>>

-----------------------------------------------------------------------------
(* Blob service properties: ServiceHandler.setProperties and getProperties on
   top of the metadata store's per-account document. A property that may be
   undefined is an optional value. *)

\* { ...properties, accountName }
Document(p, a) ==
    [accountName |-> a, cors |-> p.cors,
     defaultServiceVersion |-> p.defaultServiceVersion,
     deleteRetentionPolicy |-> p.deleteRetentionPolicy,
     hourMetrics |-> p.hourMetrics, logging |-> p.logging,
     minuteMetrics |-> p.minuteMetrics, staticWebsite |-> p.staticWebsite]

\* a || b for an optional string: undefined and "" are falsy.
OrString(a, b) == IF a # None /\ a[1] # "" THEN a ELSE b

\* a || b for an optional object: only undefined is falsy.
OrObject(a, b) == IF a # None THEN a ELSE b

\* dataStore.getServiceProperties(accountName): the document or undefined.
getServiceProperties(store, a) == store[a]

\* dataStore.updateServiceProperties(document): the account's document.
updateServiceProperties(store, doc) == [store EXCEPT ![doc.accountName] = Some(doc)]

\* A request to setProperties: corsKey is the key of the CORS element in the
\* parsed body ("cors" or "Cors") or None when the body has none; props is the
\* deserialised StorageServiceProperties.
Request(corsKey, props) == [corsKey |-> corsKey, props |-> props]

\* The document setProperties works on.
Current(store, a) ==
    IF getServiceProperties(store, a) = None
    THEN Document(dflt, a)
    ELSE getServiceProperties(store, a)[1]

\* The cors value setProperties merges: undefined when the parsed body has
\* neither a "cors" nor a "Cors" key, whatever the deserialiser produced.
SuppliedCors(req) == IF req.corsKey = None THEN None ELSE req.props.cors

\* A merge that takes the deserialised cors as it is.
MergedTrustsDeserializer(cur, req) ==
    Properties(IF req.props.cors = None THEN cur.cors ELSE req.props.cors,
               OrString(req.props.defaultServiceVersion, cur.defaultServiceVersion),
               OrObject(req.props.deleteRetentionPolicy, cur.deleteRetentionPolicy),
               OrObject(req.props.hourMetrics, cur.hourMetrics),
               OrObject(req.props.logging, cur.logging),
               OrObject(req.props.minuteMetrics, cur.minuteMetrics),
               OrObject(req.props.staticWebsite, cur.staticWebsite))

\* A merge that stores the request's properties, supplied or not.
MergedOverwrites(cur, req) ==
    Properties(IF SuppliedCors(req) = None THEN cur.cors ELSE SuppliedCors(req),
               OrString(req.props.defaultServiceVersion, cur.defaultServiceVersion),
               req.props.deleteRetentionPolicy,
               req.props.hourMetrics,
               req.props.logging,
               req.props.minuteMetrics,
               req.props.staticWebsite)

\* The properties after setProperties' assignments: cors by an undefined test,
\* the other six by ||.
Merged(cur, req) ==
    Properties(IF SuppliedCors(req) = None THEN cur.cors ELSE SuppliedCors(req),
               OrString(req.props.defaultServiceVersion, cur.defaultServiceVersion),
               OrObject(req.props.deleteRetentionPolicy, cur.deleteRetentionPolicy),
               OrObject(req.props.hourMetrics, cur.hourMetrics),
               OrObject(req.props.logging, cur.logging),
               OrObject(req.props.minuteMetrics, cur.minuteMetrics),
               OrObject(req.props.staticWebsite, cur.staticWebsite))

\* A handler that works on the default object itself, not on a copy.
DefaultsAfterShared(d, assigned) ==
    Properties(assigned.cors, assigned.defaultServiceVersion,
               assigned.deleteRetentionPolicy, assigned.hourMetrics,
               assigned.logging, assigned.minuteMetrics, assigned.staticWebsite)

\* The default object after a handler built its properties from it and
\* assigned to them: { ...this.defaultServiceProperties, accountName } is a new
\* object, and the handler assigns only to properties of that object.
DefaultsAfter(d, assigned) == d

\* setProperties: the store afterwards and the response's status code.
setProperties(store, a, req) ==
    [store  |-> updateServiceProperties(store, Document(Merged(Current(store, a), req), a)),
     status |-> 202]

\* A getProperties that stores the default document it builds.
getPropertiesCreates(store, a) ==
    LET cur == Current(store, a)
    IN  [store  |-> [store EXCEPT ![a] = Some(cur)],
         status |-> 200,
         res    |-> [cur EXCEPT !.cors = IF @ = None THEN Some(<< >>) ELSE @]]

\* getProperties: the response carries the stored document, or the defaults,
\* with an undefined cors set to [] (on the stored document itself when there
\* is one).
getProperties(store, a) ==
    LET cur   == Current(store, a)
        fixed == [cur EXCEPT !.cors = IF @ = None THEN Some(<< >>) ELSE @]
    IN  [store  |-> IF getServiceProperties(store, a) = None THEN store
                    ELSE [store EXCEPT ![a] = Some(fixed)],
         status |-> 200,
         res    |-> fixed]

\* The store as the handler of a request that holds cur for account a sees it.
Seen(store, a, cur) == [store EXCEPT ![a] = cur]

\* The object a store of the kind in use hands out for account a: its own
\* object, or a copy that nobody else holds.
HandedOut(a) == IF dataStore = Some("reference") THEN docObj[a] ELSE NoObj

\* The name of an object of an account that is new to the holders of the
\* account's objects in used.
Fresh(used) ==
    IF dataStore = Some("reference")
    THEN CHOOSE i \in ObjIds : i \notin used /\ \A j \in ObjIds : j < i => j \in used
    ELSE NoObj

\* The objects of account a that the calls other than c hold.
HeldByOthers(c, a) ==
    { hs[d].obj : d \in { e \in Calls \ {c} : hs[e].account = a } }

\* The calls after call c assigned to the object k it holds and went on to
\* next: every other call that holds k holds the document doc now.
Assigned(c, k, doc, next) ==
    [d \in Calls |-> IF d = c THEN next
                     ELSE IF /\ k # NoObj
                             /\ hs[d].obj = k
                             /\ hs[d].account = hs[c].account
                          THEN [hs[d] EXCEPT !.cur = doc]
                          ELSE hs[d]]

\* new ServiceHandler(this.dataStore, logger), which createRequestListener
\* does: the handler keeps the data store it is given, one that hands out its
\* own objects or one that hands out copies, and has a default properties
\* object of its own. The store's documents are not touched.
CreateServiceHandler(kind) ==
    /\ dataStore' = Some(kind)
    /\ dflt' = defaultServiceProperties
    /\ UNCHANGED <<svc, sret, hs, docObj>>

\* setProperties is called (lines 73-84): it takes the account and waits for
\* the parsed body.
SetBegin(c, a, req) ==
    /\ dataStore # None
    /\ hs[c].pos = "idle"
    /\ hs' = [hs EXCEPT ![c] = [op |-> "setProperties", account |-> a,
                                req |-> Some(req), pos |-> "parse",
                                cur |-> None, obj |-> NoObj]]
    /\ sret' = NoSret
    /\ UNCHANGED <<svc, dflt, dataStore, docObj>>
    /\ UNCHANGED <<catVars, protoVars, queueVars, pipeVars>>

\* The body is parsed (lines 85-92): the handler asks the store for the
\* account's document and waits for it.
SetParsed(c) ==
    /\ hs[c].op = "setProperties" /\ hs[c].pos = "parse"
    /\ hs' = [hs EXCEPT ![c].pos = "read",
                        ![c].cur = getServiceProperties(svc, hs[c].account),
                        ![c].obj = HandedOut(hs[c].account)]
    /\ UNCHANGED <<svc, sret, dflt, dataStore, docObj>>
    /\ UNCHANGED <<catVars, protoVars, queueVars, pipeVars>>

\* The document arrives (lines 92-118): the handler assigns the request's
\* properties to the object it was handed, as that object is now, or to a copy
\* of the defaults, hands a copy of the result to the store, which keeps that
\* copy as the account's document, and waits.
SetMerged(c) ==
    /\ hs[c].op = "setProperties" /\ hs[c].pos = "read"
    /\ LET a    == hs[c].account
           seen == Seen(svc, a, hs[c].cur)
           r    == setProperties(seen, a, hs[c].req[1])
       IN  /\ svc' = [svc EXCEPT ![a] = r.store[a]]
           /\ docObj' = [docObj EXCEPT ![a] = Fresh(HeldByOthers(c, a))]
           /\ hs' = Assigned(c, hs[c].obj, r.store[a],
                             [hs[c] EXCEPT !.pos = "update", !.obj = NoObj])
           /\ dflt' = IF hs[c].cur = None
                      THEN DefaultsAfter(dflt, Merged(Current(seen, a), hs[c].req[1]))
                      ELSE dflt
    /\ UNCHANGED <<sret, dataStore>>
    /\ UNCHANGED <<catVars, protoVars, queueVars, pipeVars>>

\* The store has the document (lines 120-126): the handler answers.
SetDone(c) ==
    /\ hs[c].op = "setProperties" /\ hs[c].pos = "update"
    /\ sret' = [op |-> "setProperties", account |-> hs[c].account,
                req |-> hs[c].req, before |-> hs[c].cur,
                status |-> setProperties(svc, hs[c].account, hs[c].req[1]).status,
                res |-> None]
    /\ hs' = [hs EXCEPT ![c] = NoCall]
    /\ UNCHANGED <<svc, dflt, dataStore, docObj>>
    /\ UNCHANGED <<catVars, protoVars, queueVars, pipeVars>>

\* getProperties is called (lines 136-143): it asks the store for the
\* account's document and waits for it.
GetBegin(c, a) ==
    /\ dataStore # None
    /\ hs[c].pos = "idle"
    /\ hs' = [hs EXCEPT ![c] = [op |-> "getProperties", account |-> a,
                                req |-> None, pos |-> "read",
                                cur |-> getServiceProperties(svc, a),
                                obj |-> HandedOut(a)]]
    /\ sret' = NoSret
    /\ UNCHANGED <<svc, dflt, dataStore, docObj>>
    /\ UNCHANGED <<catVars, protoVars, queueVars, pipeVars>>

\* The document arrives (lines 143-159): the handler answers with the object
\* it was handed, as that object is now, or with a copy of the defaults; what
\* it assigns to the object reaches the store and the other calls that hold
\* the object.
GetDone(c) ==
    /\ hs[c].op = "getProperties" /\ hs[c].pos = "read"
    /\ LET a == hs[c].account
           k == hs[c].obj
           r == getProperties(Seen(svc, a, hs[c].cur), a)
       IN  /\ sret' = [op |-> "getProperties", account |-> a, req |-> None,
                       before |-> hs[c].cur,
                       status |-> r.status, res |-> Some(r.res)]
           /\ dflt' = IF hs[c].cur = None THEN DefaultsAfter(dflt, r.res)
                      ELSE dflt
           /\ IF hs[c].cur = None
              THEN /\ svc' = IF r.store[a] = None THEN svc
                             ELSE [svc EXCEPT ![a] = r.store[a]]
                   /\ docObj' = IF r.store[a] = None THEN docObj
                                ELSE [docObj EXCEPT ![a] = Fresh(HeldByOthers(c, a))]
                   /\ hs' = [hs EXCEPT ![c] = NoCall]
              ELSE /\ svc' = IF k # NoObj /\ docObj[a] = k
                             THEN [svc EXCEPT ![a] = r.store[a]] ELSE svc
                   /\ hs' = Assigned(c, k, r.store[a], NoCall)
                   /\ UNCHANGED docObj
    /\ UNCHANGED dataStore
    /\ UNCHANGED <<catVars, protoVars, queueVars, pipeVars>>

-----------------------------------------------------------------------------
(* The queue's message operations: enqueue, peek, dequeue and clear, as the
   message tests use them. Times are in milliseconds, timeouts and times to
   live in seconds. *)

\* Cap on the number of messages enqueued (unbounded in the service).
MaxMsgs == 2

\* The largest message text, in bytes after encoding (64 KiB).
MaxMessageBytes == 65536

\* messageTimeToLive when omitted: 7 days.
DefaultMessageTtl == 604800

\* visibilitytimeout of a dequeue when omitted.
DefaultDequeueVisibility == 30

\* numberOfMessages when omitted, and its largest value.
DefaultNumberOfMessages == 1
MaxNumberOfMessages == 32

\* A message text: len times the character char.
Text(char, len) == [char |-> char, len |-> len]

\* The bytes one character takes in the encoded body.
BytesOfChar(char) == IF char = "a" THEN 1 ELSE 2

\* The size of the text as the request carries it.
EncodedLength(text) == text.len * BytesOfChar(text.char)

\* A message record; extent is the descriptor of the stored text.
Message(id, text, ins, exp, tnv, dc, ext) ==
    [messageId |-> id, messageText |-> text, insertionTime |-> ins,
     expirationTime |-> exp, timeNextVisible |-> tnv, dequeueCount |-> dc,
     extent |-> ext]

\* The file the next append goes to: an idle open file, else a new one.
Destination(pl) ==
    IF \E i \in Ids : CanAcquire(pl, i)
    THEN Some(CHOOSE i \in Ids : CanAcquire(pl, i))
    ELSE IF \E i \in Ids : CanCreate(pl, i)
    THEN Some(CHOOSE i \in Ids : CanCreate(pl, i))
    ELSE None

\* A limit test that lets one byte more through.
TooLargeOffByOne(text) == EncodedLength(text) > MaxMessageBytes + 1

TooLarge(text) == EncodedLength(text) > MaxMessageBytes

\* A visibility test that disregards timeNextVisible.
VisibleAlways(m, t) == m.expirationTime > t

\* A message is visible once its timeNextVisible has come, until it expires.

Visible(m, t) == m.timeNextVisible <= t /\ m.expirationTime > t

\* The first n messages of q that are visible at time t, in queue order.
FirstVisible(q, n, t) ==
    LET vis == Filter(q, { k \in 1..Len(q) : Visible(q[k], t) })
    IN  IF Len(vis) <= n THEN vis ELSE SubSeq(vis, 1, n)

NumberOf(n) == IF n = None THEN DefaultNumberOfMessages ELSE n[1]

\* A range check with no upper limit.
InRangeNoMax(n) == NumberOf(n) >= 1

InRange(n) == NumberOf(n) >= 1 /\ NumberOf(n) <= MaxNumberOfMessages

QRet(op, text, ttl, vis, n, err, items) ==
    [op |-> op, text |-> text, ttl |-> ttl, vis |-> vis, n |-> n, err |-> err,
     items |-> items]

\* enqueue: rejected when the text is too large or the visibility timeout is
\* not smaller than the time to live; else the text is appended to an extent
\* at descriptor d and the message joins the queue's end.
enqueue(q, k, t, text, ttl, vis, d) ==
    LET live == IF ttl = None THEN DefaultMessageTtl ELSE ttl[1]
        hide == IF vis = None THEN 0 ELSE vis[1]
        msg  == Message(k + 1, text, t, t + live * 1000, t + hide * 1000, 0, d)
    IN  IF TooLarge(text)
        THEN [queue |-> q, err |-> "RequestBodyTooLarge", items |-> << >>]
        ELSE IF hide >= live
        THEN [queue |-> q, err |-> "InvalidParameter", items |-> << >>]
        ELSE [queue |-> Append(q, msg), err |-> "", items |-> << msg >>]

\* A message as a dequeue leaves it: counted, and hidden for the timeout.
dequeued(m, t, vis) ==
    [m EXCEPT !.dequeueCount = @ + 1,
              !.timeNextVisible =
                  t + (IF vis = None THEN DefaultDequeueVisibility ELSE vis[1]) * 1000]

\* dequeue: the first numberOfMessages visible messages, each counted and hidden.
dequeue(q, t, n, vis) ==
    LET got == FirstVisible(q, NumberOf(n), t)
        ids == { got[k].messageId : k \in 1..Len(got) }
    IN  IF ~InRange(n)
        THEN [queue |-> q, err |-> "OutOfRangeParameter", items |-> << >>]
        ELSE [queue |-> [k \in 1..Len(q) |->
                            IF q[k].messageId \in ids THEN dequeued(q[k], t, vis)
                            ELSE q[k]],
              err |-> "",
              items |-> [k \in 1..Len(got) |-> dequeued(got[k], t, vis)]]

\* A peek that hides what it returns, as a dequeue does.
peekHides(q, t, n) ==
    [queue |-> dequeue(q, t, n, None).queue,
     err   |-> dequeue(q, t, n, None).err,
     items |-> FirstVisible(q, NumberOf(n), t)]

\* peek: the first numberOfMessages visible messages; the queue stays as it is.
peek(q, t, n) ==
    IF ~InRange(n)
    THEN [queue |-> q, err |-> "OutOfRangeParameter", items |-> << >>]
    ELSE [queue |-> q, err |-> "", items |-> FirstVisible(q, NumberOf(n), t)]

\* An accepted enqueue writes the text at the end of the destination file,
\* records the file's size in the catalog and keeps the descriptor in the
\* message; a rejected one reaches neither the extent store nor the queue.
Enqueue(text, ttl, vis) ==
    /\ nextMsg < MaxMsgs
    /\ Destination(pool) # None
    /\ LET i    == Destination(pool)[1]
           d    == Descriptor(i, pool[i].size, EncodedLength(text))
           size == pool[i].size + EncodedLength(text)
           r    == enqueue(queue, nextMsg, now, text, ttl, vis, d)
       IN  /\ queue' = r.queue
           /\ nextMsg' = IF r.err = "" THEN nextMsg + 1 ELSE nextMsg
           /\ qret' = QRet("enqueue", Some(text), ttl, vis, None, r.err, r.items)
           /\ IF r.err = ""
              THEN /\ pool' = [pool EXCEPT ![i] =
                                 [st |-> IF size > RotateThreshold THEN "closed" ELSE "open",
                                  size |-> size, lock |-> None]]
                   /\ updateExtent(Extent(i, "d1", i, size, now))
                   /\ appended' = appended (+) SetToBag({d})
                   /\ refs' = refs \cup {d}
              ELSE UNCHANGED <<data, maxId, dirty, ret, en, pool, appended, refs>>
    /\ UNCHANGED <<catFrame, now, wr, gc, svcVars, pipeVars>>

Peek(n) ==
    /\ LET r == peek(queue, now, n)
       IN  /\ queue' = r.queue
           /\ qret' = QRet("peek", None, None, None, n, r.err, r.items)
    /\ UNCHANGED <<catVars, protoVars, svcVars, pipeVars, nextMsg>>

Dequeue(n, vis) ==
    /\ LET r == dequeue(queue, now, n, vis)
       IN  /\ queue' = r.queue
           /\ qret' = QRet("dequeue", None, None, vis, n, r.err, r.items)
    /\ UNCHANGED <<catVars, protoVars, svcVars, pipeVars, nextMsg>>

\* clear: every message goes, and with it its reference to its extent.
Clear ==
    /\ queue' = << >>
    /\ refs' = refs \ { queue[k].extent : k \in 1..Len(queue) }
    /\ qret' = QRet("clear", None, None, None, None, "", << >>)
    /\ UNCHANGED <<catVars, now, pool, wr, appended, gc, svcVars, pipeVars, nextMsg>>

\* One second passes.
Second ==
    /\ now < MaxClock * 1000
    /\ now' = now + 1000
    /\ UNCHANGED <<catVars, pool, wr, appended, refs, gc, nonProto>>

-----------------------------------------------------------------------------
(* The request listener of the blob service: createRequestListener constructs
   the handlers and registers the middleware with app.use in a fixed order.
   The express application and the bodies of the middleware are outside the
   source; they are taken as the comments of createRequestListener and the
   framework's contract describe them: the application runs the registered
   middleware for each request in registration order, a middleware hands on
   with next() or, when it fails, with next(err) or a throw, and while an
   error is handed on only the error middleware runs ("will return
   MiddlewareError and Errors thrown in previous middleware/handlers"). *)

\* A registration that puts the handlers before authentication.
StackHandlerFirst(enableAccessLog) ==
    (IF enableAccessLog THEN << "accessLog" >> ELSE << >>) \o
    << "context", "dispatch", "handler", "authentication", "deserializer",
       "serializer", "error", "end" >>

\* The app.use calls of createRequestListener, in order.
Stack(enableAccessLog) ==
    (IF enableAccessLog THEN << "accessLog" >> ELSE << >>) \o
    << "context", "dispatch", "authentication", "deserializer", "handler",
       "serializer", "error", "end" >>

\* The error middleware is the one that takes the error handed on.
IsErrorHandler(stage) == stage = "error"

\* The next middleware after position pos that takes the request: an error
\* handler when an error is handed on, another one when not; 0 when none is
\* left.
NextIndex(stack, pos, err) ==
    LET rest == { k \in (pos + 1)..Len(stack) : IsErrorHandler(stack[k]) = err }
    IN  IF rest = {} THEN 0 ELSE CHOOSE k \in rest : \A j \in rest : k <= j

\* What a middleware may do with a request: hand it on, fail and hand an error
\* on, or (the end middleware) end the response. The access log and the
\* context middleware only hand on.
Outcomes(stage) ==
    IF stage = "end" THEN {"end"}
    ELSE IF stage \in {"accessLog", "context"} THEN {"next"}
    ELSE {"next", "error"}

\* createRequestListener() of a factory constructed with a data store of the
\* given kind and with enableAccessLog: it constructs the handlers, the
\* service handler among them, and registers the middleware. One listener is
\* created.
CreateRequestListener(enableAccessLog, kind) ==
    /\ app = None
    /\ CreateServiceHandler(kind)
    /\ app' = Some([enableAccessLog |-> enableAccessLog,
                     stack |-> Stack(enableAccessLog)])
    /\ UNCHANGED <<catVars, protoVars, queueVars, rq>>

\* A request arrives at the listener: the first middleware is to run.
Arrive(r) ==
    /\ app # None
    /\ rq[r].st = "none"
    /\ rq' = [rq EXCEPT ![r] = [NoReq EXCEPT !.st = "run",
                                             !.pos = NextIndex(app[1].stack, 0, FALSE)]]
    /\ UNCHANGED <<catVars, protoVars, svcVars, queueVars, app>>

\* The middleware at the request's position runs and hands the request on.
RunMiddleware(r, outcome) ==
    /\ app # None
    /\ rq[r].st = "run"
    /\ LET stage == app[1].stack[rq[r].pos]
           err   == outcome = "error"
           to    == IF outcome = "end" THEN 0 ELSE NextIndex(app[1].stack, rq[r].pos, err)
       IN  /\ outcome \in Outcomes(stage)
           /\ rq' = [rq EXCEPT ![r] =
                        [st     |-> IF to = 0 THEN "done" ELSE "run",
                         pos    |-> to,
                         err    |-> err,
                         trace  |-> Append(rq[r].trace, stage),
                         failed |-> IF err /\ rq[r].failed = "" THEN stage
                                    ELSE rq[r].failed]]
    /\ UNCHANGED <<catVars, protoVars, svcVars, queueVars, app>>

-----------------------------------------------------------------------------
(* Specifications *)

\* Paging: the catalog is opened once, then mutated and enumerated; no close,
\* no crash.
NextPaging ==
    \/ ~initialized /\ InitBegin
    \/ InitStat
    \/ InitResume
    \/ \E ok \in BOOLEAN : InitSaved(ok)
    \/ InitMark
    \/ \E e \in ExtentsP : initialized /\ UpdateExtent(e)
    \/ \E i \in Ids : initialized /\ DeleteExtent(i)
    \/ \E f \in EnumFilters, l \in EnumLimits : initialized /\ EnumBegin(f[1], l, f[2], f[3])
    \/ EnumNext

SpecPaging == Init /\ [][NextPaging]_vars

\* Point operations, every field of the extent varying.
NextUpsert ==
    \/ ~initialized /\ InitBegin
    \/ InitStat
    \/ InitResume
    \/ \E ok \in BOOLEAN : InitSaved(ok)
    \/ InitMark
    \/ \E e \in ExtentsU : initialized /\ UpdateExtent(e)
    \/ \E i \in IdsSmall : initialized /\ DeleteExtent(i)
    \/ \E i \in IdsSmall : initialized /\ GetExtentPersistencyId(i)

SpecUpsert == Init /\ [][NextUpsert]_vars

\* Single listExtents calls, every parameter of the call varying.
NextListing ==
    \/ ~initialized /\ InitBegin
    \/ InitStat
    \/ InitResume
    \/ \E ok \in BOOLEAN : InitSaved(ok)
    \/ InitMark
    \/ \E e \in ExtentsL : initialized /\ UpdateExtent(e)
    \/ \E i \in IdsSmall : initialized /\ DeleteExtent(i)
    \/ \E i \in IdFilters, l \in Limits, m \in Markers, t \in QueryTimes,
          u \in UnmodifiedTimes : initialized /\ ListExtents(i, l, m, t, u)

SpecListing == Init /\ [][NextListing]_vars

\* Durability: saves, close, crash and restart. init() is called on a catalog
\* that is not open; acknowledged extents are referenced, so nothing deletes
\* them.
NextDurable ==
    \/ (~initialized \/ closed) /\ InitBegin
    \/ InitStat
    \/ \E ok \in BOOLEAN : InitLoaded(ok)
    \/ InitResume
    \/ \E ok \in BOOLEAN : InitSaved(ok)
    \/ InitMark
    \/ CloseBegin
    \/ \E ok \in BOOLEAN : CloseWritten(ok)
    \/ CloseMark
    \/ \E ok \in BOOLEAN : AutosaveTick(ok)
    \/ Crash
    \/ \E e \in ExtentsD : UpdateExtent(e)
    \/ \E i \in {"e1"} \ acked : DeleteExtent(i)
    \/ \E i \in {"e1"} : Acknowledge(i)

SpecDurable == Init /\ [][NextDurable]_vars

\* Concurrent appends: two writers, three extent ids, a budget of two open
\* files.
NextAppend ==
    \/ ~initialized /\ InitBegin
    \/ InitStat
    \/ InitResume
    \/ \E ok \in BOOLEAN : InitSaved(ok)
    \/ InitMark
    \/ \E w \in Writers, i \in Ids, n \in Counts : initialized /\ AppendBegin(w, i, n)
    \/ \E w \in Writers, ok \in BOOLEAN : AppendEnd(w, ok)
    \/ \E w \in Writers : PersistDescriptor(w)
    \/ \E w \in Writers : AcknowledgeClient(w)

SpecAppend == Init /\ [][NextAppend]_vars

\* Writers, deleters, the clock and the sweep, on two extent ids.
NextGC ==
    \/ ~initialized /\ InitBegin
    \/ InitStat
    \/ InitResume
    \/ \E ok \in BOOLEAN : InitSaved(ok)
    \/ InitMark
    \/ \E i \in IdsSmall : initialized /\ AppendBegin("w1", i, 1)
    \/ AppendEnd("w1", TRUE)
    \/ PersistDescriptor("w1")
    \/ AcknowledgeClient("w1")
    \/ \E d \in refs : Dereference(d)
    \/ Tick
    \/ initialized /\ GcBegin
    \/ GcList
    \/ GcDelete
    \/ GcEnd

SpecGC == Init /\ [][NextGC]_vars

\* The requests to setProperties: no property, a version, an hour metrics or a
\* logging property alone, an empty and a non-empty CORS list, an empty
\* version string, every property.
NoProps == Properties(None, None, None, None, None, None, None)

Requests ==
    { Request(None, NoProps),
      Request(None, [NoProps EXCEPT !.cors = Some(<< >>)]),
      Request(Some("cors"), [NoProps EXCEPT !.cors = Some(<< >>)]),
      Request(Some("Cors"), [NoProps EXCEPT !.cors = Some(<< "rule1" >>)]),
      Request(None, [NoProps EXCEPT !.cors = Some(<< >>),
                                    !.defaultServiceVersion = Some("2018-03-28")]),
      Request(None, [NoProps EXCEPT !.cors = Some(<< >>),
                                    !.defaultServiceVersion = Some("")]),
      Request(None, [NoProps EXCEPT !.cors = Some(<< >>),
                                    !.hourMetrics = Some(Metrics(TRUE))]),
      Request(None, [NoProps EXCEPT !.cors = Some(<< >>),
                                    !.logging = Some(Logging(FALSE, TRUE, FALSE))]),
      Request(Some("Cors"),
              Properties(Some(<< "rule1" >>), Some("2018-03-28"),
                         Some([enabled |-> TRUE, days |-> 7]), Some(Metrics(TRUE)),
                         Some(Logging(FALSE, TRUE, FALSE)), Some(Metrics(TRUE)),
                         Some([enabled |-> TRUE]))) }

\* The requests sent for the second account: those with a CORS element.
RequestsCors == { r \in Requests : r.corsKey # None }

\* The requests of a second client of the first account, sent while those of
\* the first client are in flight.
RequestsSecond ==
    { r \in Requests : r.corsKey = None /\ r.props.logging # None }

\* The listener is created without access log, which no handler sees.
NextService ==
    \/ \E k \in StoreKinds : CreateRequestListener(FALSE, k)
    \/ \E r \in Requests : SetBegin("c1", "devstoreaccount1", r)
    \/ \E r \in RequestsCors : SetBegin("c1", "account2", r)
    \/ \E r \in RequestsSecond : SetBegin("c2", "devstoreaccount1", r)
    \/ \E c \in Calls : SetParsed(c)
    \/ \E c \in Calls : SetMerged(c)
    \/ \E c \in Calls : SetDone(c)
    \/ \E a \in Accounts : GetBegin("c1", a)
    \/ \E c \in Calls : GetDone(c)

SpecService == Init /\ [][NextService]_vars

\* Message sizes around the limit, in one-byte and in two-byte characters.
TextsSize == { Text("a", 0), Text("a", 11), Text("a", 65536), Text("a", 65537),
               Text("é", 32768), Text("é", 32769) }

NextQueueSize ==
    \/ ~initialized /\ InitBegin
    \/ InitStat
    \/ InitResume
    \/ \E ok \in BOOLEAN : InitSaved(ok)
    \/ InitMark
    \/ \E x \in TextsSize : initialized /\ Enqueue(x, None, None)
    \/ \E n \in {None, Some(2)} : Peek(n)
    \/ \E n \in {None, Some(2)} : Dequeue(n, Some(1))
    \/ Clear
    \/ Second

SpecQueueSize == Init /\ [][NextQueueSize]_vars

\* Visibility: times to live, visibility timeouts and numbers of messages.
EnqueueArgs == { <<None, None>>, <<Some(2), Some(1)>>, <<Some(2), Some(2)>> }

NextQueue ==
    \/ ~initialized /\ InitBegin
    \/ InitStat
    \/ InitResume
    \/ \E ok \in BOOLEAN : InitSaved(ok)
    \/ InitMark
    \/ \E a \in EnqueueArgs : initialized /\ Enqueue(Text("a", 11), a[1], a[2])
    \/ \E n \in {None, Some(2), Some(100)} : Peek(n)
    \/ \E n \in {None, Some(2)}, v \in {None, Some(1)} : Dequeue(n, v)
    \/ Clear
    \/ Second

SpecQueue == Init /\ [][NextQueue]_vars

\* The four catalog operations on two ids.
NextFrame ==
    \/ ~initialized /\ InitBegin
    \/ InitStat
    \/ InitResume
    \/ \E ok \in BOOLEAN : InitSaved(ok)
    \/ InitMark
    \/ \E e \in ExtentsU : initialized /\ UpdateExtent(e)
    \/ \E i \in IdsSmall : initialized /\ DeleteExtent(i)
    \/ \E i \in IdsSmall : initialized /\ GetExtentPersistencyId(i)
    \/ \E l \in {None, Some(1)}, m \in {None, Some(1)} :
          initialized /\ ListExtents(None, l, m, None, None)

SpecFrame == Init /\ [][NextFrame]_vars

\* The listener, with and without access log, and two requests at a time.
NextPipeline ==
    \/ \E on \in BOOLEAN, k \in StoreKinds : CreateRequestListener(on, k)
    \/ \E r \in Reqs : Arrive(r)
    \/ \E r \in Reqs, o \in {"next", "error", "end"} : RunMiddleware(r, o)

SpecPipeline == Init /\ [][NextPipeline]_vars

\* Every operation together, on one extent id.
ExtentsS == { Extent("e1", "d1", "e1", sz, 1000) : sz \in {0, 1} }

Next ==
    \/ (~initialized \/ closed) /\ InitBegin
    \/ InitStat
    \/ \E ok \in BOOLEAN : InitLoaded(ok)
    \/ InitResume
    \/ \E ok \in BOOLEAN : InitSaved(ok)
    \/ InitMark
    \/ CloseBegin
    \/ \E ok \in BOOLEAN : CloseWritten(ok)
    \/ CloseMark
    \/ \E ok \in BOOLEAN : AutosaveTick(ok)
    \/ Crash
    \/ \E e \in ExtentsS : UpdateExtent(e)
    \/ \E i \in {"e1"} \ acked : DeleteExtent(i)
    \/ \E i \in {"e1"} : GetExtentPersistencyId(i)
    \/ \E i \in {"e1"} : Acknowledge(i)
    \/ EnumBegin(None, Some(1), None, None)
    \/ EnumNext
    \/ ListExtents(None, Some(1), None, None, None)

Spec == Init /\ [][Next]_vars

-----------------------------------------------------------------------------
(* Properties of paged listing *)

\* The limit a listExtents call works with.
LimitOf(maxResults) == IF maxResults = None THEN DefaultMaxResults ELSE maxResults[1]

\* C1, as stated: when an enumeration ends, its pages together hold every
\* record that matched the filter at the first call, whatever updateExtent and
\* deleteExtent calls ran between the page calls.
C1_CompleteUnderAnyInterleaving ==
    en.st = "done" => en.start \subseteq en.got

\* C1, amended: when an enumeration ends, its pages together hold every record
\* that matched the filter at the first call and that no deleteExtent removed
\* and no updateExtent gave another modification time between the page calls.
C1_CompleteForUntouched ==
    en.st = "done" => (en.start \ en.touched) \subseteq en.got

\* An enumeration of several pages ended, a record was deleted or re-dated on
\* the way, and records that were left alone were listed.
C1_Witness ==
    /\ en.st = "done"
    /\ en.touched # {}
    /\ en.touched \ en.got # {}
    /\ Cardinality(en.start \ en.touched) >= 2
    /\ en.mr = Some(1)

\* C2: a listExtents call with limit L >= 1 returns a nextMarker exactly when
\* its page holds L records, and the nextMarker is the sequence number of the
\* page's last record.
C2_NextMarkerIffFull ==
    (ret.op = "listExtents" /\ LimitOf(ret.q.maxResults) >= 1) =>
        /\ ret.err = ""
        /\ (ret.next # None) <=> (Len(ret.docs) = LimitOf(ret.q.maxResults))
        /\ ret.next # None => ret.next = Some(ret.docs[Len(ret.docs)].loki)

\* A full page of two records came back with its marker.
C2_Witness ==
    /\ ret.op = "listExtents"
    /\ ret.q.maxResults = Some(2)
    /\ Len(ret.docs) = 2
    /\ ret.next = Some(ret.docs[2].loki)

\* The number of records that matched when the enumeration began.
EnN == Cardinality(en.start)

\* The index of the page that holds the last matching record.
LastRecordPage ==
    CHOOSE k \in 1..Len(en.pages) :
        /\ en.pages[k].n > 0
        /\ \A j \in (k + 1)..Len(en.pages) : en.pages[j].n = 0

\* C3, as stated: enumerating N >= 1 records of an unchanging catalog with
\* limit L, every page but the final one is full and has a nextMarker, and the
\* page with the last matching record has none, also when L divides N.
C3_LastRecordPageHasNoMarker ==
    (en.st = "done" /\ en.quiet /\ EnN >= 1) =>
        /\ \A k \in 1..(Len(en.pages) - 1) :
              en.pages[k].n = LimitOf(en.mr) /\ en.pages[k].next # None
        /\ en.pages[LastRecordPage].next = None

\* C3, amended: enumerating N records of an unchanging catalog with limit L
\* takes N \div L + 1 pages; every page but the final one holds L records and
\* has a nextMarker; the final page holds the N % L records that are left and
\* has no nextMarker. When L divides N the page with the last matching record
\* is full and has a nextMarker, and an empty page ends the enumeration.
C3_PagesOfEnumeration ==
    (en.st = "done" /\ en.quiet) =>
        LET L == LimitOf(en.mr)
            k == Len(en.pages)
        IN  /\ k = (EnN \div L) + 1
            /\ \A j \in 1..(k - 1) : en.pages[j].n = L /\ en.pages[j].next # None
            /\ en.pages[k].n = EnN % L
            /\ en.pages[k].next = None

\* Two records enumerated with limit 1: two full pages and an empty one.
C3_Witness ==
    /\ en.st = "done"
    /\ en.quiet
    /\ EnN = 2
    /\ en.mr = Some(1)
    /\ Len(en.pages) = 3
    /\ en.pages[2].next # None

\* C5: with a queryTime T and U unmodified seconds (0 when omitted), every
\* record listExtents returns has LastModifyInMS < T - U * 1000, so a record
\* modified at exactly T - U * 1000 or later is never returned; with no
\* queryTime, whatever U is, every record past the marker that the id filter
\* allows is returned up to the limit.
C5_AgeFilterStrict ==
    ret.op = "listExtents" =>
        LET q == ret.q
            U == IF q.UnmodifiedTime = None THEN 0 ELSE q.UnmodifiedTime[1]
            eligible == { k \in 1..Len(data) :
                            /\ (q.id # None => data[k].id = q.id[1])
                            /\ (q.marker # None => data[k].loki > q.marker[1]) }
        IN  /\ q.queryTime # None =>
                  \A k \in 1..Len(ret.docs) :
                      ret.docs[k].LastModifyInMS < q.queryTime[1] - U * 1000
            /\ (q.queryTime = None /\ ret.err = "") =>
                  Len(ret.docs) =
                      IF Cardinality(eligible) < LimitOf(q.maxResults)
                      THEN Cardinality(eligible) ELSE LimitOf(q.maxResults)

\* A call with T = 2000 and U = 1 returned an older record and left out a
\* record modified at exactly T - U * 1000.
C5_Witness ==
    /\ ret.op = "listExtents"
    /\ ret.q.queryTime = Some(2000)
    /\ ret.q.UnmodifiedTime = Some(1)
    /\ ret.q.maxResults = None
    /\ ret.q.marker = None
    /\ ret.q.id = None
    /\ Len(ret.docs) = 1
    /\ \E k \in 1..Len(data) : data[k].LastModifyInMS = 1000

-----------------------------------------------------------------------------
(* Properties of the point operations *)

\* The document with the id, in an optional value.
DocOf(ds, i) == FindOne(ds, i)

\* C4, as stated: after updateExtent(extent) the record with extent.id has the
\* size, LastModifyInMS, persistencyId and path of the supplied extent, whether
\* the id was new or not.
C4_UpsertReplacesEveryField ==
    (ret.op = "updateExtent" /\ ret.err = "") =>
        /\ DocOf(data, ret.id) # None
        /\ Rec(DocOf(data, ret.id)[1]) = ret.ext[1]

\* C4, amended: updateExtent(extent) inserts the extent as a new record when
\* no record has extent.id; when one has, its size and LastModifyInMS take the
\* supplied values and its persistencyId and path stay as they were, so a
\* later lookup of the id returns the destination recorded at insertion.
C4_UpsertKeepsPlacement ==
    [][(ret'.op = "updateExtent" /\ ret'.err = "") =>
         LET e   == ret'.ext[1]
             old == DocOf(data, e.id)
             new == DocOf(data', e.id)
         IN  /\ new # None
             /\ new[1].size = e.size
             /\ new[1].LastModifyInMS = e.LastModifyInMS
             /\ old = None =>
                   /\ Rec(new[1]) = e
                   /\ Len(data') = Len(data) + 1
             /\ old # None =>
                   /\ new[1].persistencyId = old[1].persistencyId
                   /\ new[1].path = old[1].path
                   /\ new[1].loki = old[1].loki
                   /\ Len(data') = Len(data)
             /\ getExtentPersistencyId(data', hasColl', e.id).pid =
                   IF old = None THEN e.persistencyId ELSE old[1].persistencyId
      ]_vars

\* An existing record was updated with an extent of another placement: size
\* and time are the supplied ones, the destination is not.
C4_Witness ==
    /\ ret.op = "updateExtent"
    /\ ret.err = ""
    /\ DocOf(data, ret.id) # None
    /\ DocOf(data, ret.id)[1].size = ret.ext[1].size
    /\ DocOf(data, ret.id)[1].LastModifyInMS = ret.ext[1].LastModifyInMS
    /\ DocOf(data, ret.id)[1].persistencyId # ret.ext[1].persistencyId
    /\ DocOf(data, ret.id)[1].path # ret.ext[1].path

\* C9: on an open catalog deleteExtent(id) completes without error and leaves
\* no record with the id; every other record stays, in order; for an id that
\* is not in the catalog (never inserted, or already deleted) the catalog is
\* left as it was.
C9_DeleteIdempotent ==
    [][ret'.op = "deleteExtent" =>
         /\ ret'.err = ""
         /\ ret'.id \notin IdsOf(data')
         /\ \A k \in 1..Len(data) :
               data[k].id # ret'.id => \E j \in 1..Len(data') : data'[j] = data[k]
         /\ Len(data') <= Len(data)
         /\ ret'.id \notin IdsOf(data) => (data' = data /\ maxId' = maxId)
      ]_vars

\* A deleteExtent for an id that is not in the catalog, after inserts and a
\* removal, on a catalog that still holds a record.
C9_Witness ==
    /\ ret.op = "deleteExtent"
    /\ ret.err = ""
    /\ ret.docs = << >>
    /\ maxId >= 2
    /\ Len(data) = 1

\* C10: getExtentPersistencyId(id) returns the recorded destination when the
\* id is in the catalog and fails with a not-found error when it is not.
C10_LookupNotFound ==
    ret.op = "getExtentPersistencyId" =>
        IF ret.id \in IdsOf(data)
        THEN ret.err = "" /\ ret.pid = DocOf(data, ret.id)[1].persistencyId
        ELSE ret.err = "ExtentNotFound"

-----------------------------------------------------------------------------
(* Properties of durability *)

\* C6: once the catalog is open again after a crash, every extent whose
\* descriptor was acknowledged is in the catalog.
C6_AcknowledgedSurviveCrash ==
    initialized => acked \subseteq IdsOf(data)

\* C7: what init() loads into a newly constructed catalog (after a crash) is
\* the catalog as it was when the last completed autosave or save was asked
\* for: every updateExtent and deleteExtent that completed before it is there.
C7_LoadsLastSave ==
    [][(pc = "load" /\ pc' = "resume" /\ ~hasColl) => data' = tickSnap]_vars

\* A new process loaded a catalog that is not empty and that lacks an extent
\* acknowledged before the crash.
C7_Witness ==
    /\ pc = "resume"
    /\ ~initialized
    /\ data # << >>
    /\ acked \ IdsOf(data) # {}

\* C8: an init() after a completed close() loads exactly the records present
\* when that close() was called (atClose: those records, from the step in
\* which close() completes until the file is next written); an init() that
\* finds the backing file takes the collection from it, documents and
\* sequence counter, and when it resumes it keeps the collection it finds.
C8_CloseInitRoundTrip ==
    [][/\ (pc = "load" /\ pc' = "resume") =>
             /\ atClose # None => Records(data') = atClose[1]
             /\ hasColl'
             /\ data' = disk[1].data
             /\ maxId' = disk[1].maxId
             /\ ~dirty'
       /\ (pc = "resume" /\ pc' = "save" /\ hasColl) =>
             (data' = data /\ maxId' = maxId)
      ]_vars

-----------------------------------------------------------------------------
(* Properties of the open/closed state *)

CatalogOps == {"updateExtent", "listExtents", "deleteExtent", "getExtentPersistencyId"}

\* C11: a catalog operation invoked while init() has not completed, or after
\* close() has completed, fails with a NotInitialized or Closed error and leaves
\* the catalog's documents as they were.
C11_GuardedByOpenState ==
    [][(/\ ret'.op \in CatalogOps
        /\ ~initialized \/ closed
        /\ initialized' = initialized /\ closed' = closed
        /\ pc' = pc /\ cpc' = cpc) =>
          /\ ret'.err \in {"NotInitialized", "Closed"}
          /\ data' = data
          /\ maxId' = maxId
      ]_vars

-----------------------------------------------------------------------------
(* Properties of the reference protocol and the sweep *)

\* C12: with writers that append, then persist the descriptor, then
\* acknowledge, deleters that only remove references, and sweeps at any time,
\* every extent id that a live record refers to is in the catalog; and the
\* sweep removes no row of an extent that is referenced or that was modified
\* within the unmodified window.
C12_ReferencedExtentsPresent ==
    [][/\ RefIds(refs') \subseteq IdsOf(data')
       /\ (gc.st = "run" /\ gc.cand # << >> /\ gc'.cand = Tail(gc.cand)
             /\ data' # data) =>
             LET i == Head(gc.cand)
             IN  /\ i \notin RefIds(refs)
                 /\ FindOne(data, i)[1].LastModifyInMS < now - GcUnmodifiedTime * 1000
      ]_vars

\* An extent of the catalog is within the unmodified window at time t.
WithinWindow(d, t) == d.LastModifyInMS >= t - GcUnmodifiedTime * 1000

\* C13, as stated: when a sweep completes, every extent in the catalog is
\* referenced by a live record or was modified within the unmodified window,
\* also when appends and reference changes ran between the sweep's steps.
C13_SweepLeavesOnlyLive ==
    [][(gc.st = "run" /\ gc'.st = "done") =>
         \A k \in 1..Len(data') :
             \/ data'[k].id \in RefIds(refs')
             \/ WithinWindow(data'[k], now')
      ]_vars

\* C13, amended: when a sweep has completed, every extent in the catalog was in
\* the referenced set the sweep collected at its start, or was modified no
\* earlier than one unmodified window before the sweep started; an extent that
\* lost its last reference, or that aged past the window, while the sweep ran
\* stays until a later sweep.
C13_SweepLeavesLiveAtStart ==
    gc.st = "done" =>
        \A k \in 1..Len(data) :
            \/ data[k].id \in gc.snap
            \/ WithinWindow(data[k], gc.t0)

\* A sweep has completed that removed an extent and left one that was
\* referenced when the sweep started, is old, and is referenced no more.
C13_Witness ==
    /\ gc.st = "done"
    /\ gc.removed # {}
    /\ \E k \in 1..Len(data) :
          /\ data[k].id \in gc.snap
          /\ data[k].id \notin RefIds(refs)
          /\ ~WithinWindow(data[k], now)

-----------------------------------------------------------------------------
(* Properties of the writer pool *)

\* The byte intervals of two descriptors of one extent have a byte in common.
Overlap(a, b) ==
    /\ a.extentId = b.extentId
    /\ a.offset < b.offset + b.count
    /\ b.offset < a.offset + a.count

\* C14: no two completed appends returned descriptors whose byte intervals
\* overlap within one extent, and no two writers are appending to the same
\* extent file at the same time.
C14_AppendsDisjoint ==
    /\ \A a \in BagToSet(appended) :
          /\ CopiesIn(a, appended) = 1
          /\ \A b \in BagToSet(appended) : a # b => ~Overlap(a, b)
    /\ \A v, w \in Writers :
          (v # w /\ wr[v].pc = "locked" /\ wr[w].pc = "locked") => wr[v].ext # wr[w].ext

\* Two appends to one extent have completed, the second at the offset where
\* the first ended, while the other writer holds the lock of another file.
C14_Witness ==
    /\ \E a, b \in BagToSet(appended) :
          /\ a.extentId = b.extentId
          /\ b.offset = a.offset + a.count
    /\ \E w \in Writers : \E a \in BagToSet(appended) :
          wr[w].pc = "locked" /\ wr[w].ext # a.extentId

-----------------------------------------------------------------------------
(* Properties of the blob service properties *)

MergedFields == {"defaultServiceVersion", "deleteRetentionPolicy", "hourMetrics",
                 "logging", "minuteMetrics", "staticWebsite"}

\* The properties the handler of call c merges into: those of the document it
\* was handed, as it is now, or the defaults when the account had none.
ReadBy(c) == IF hs[c].cur = None THEN defaultServiceProperties ELSE hs[c].cur[1]

\* Call c takes a step of its handler (another call's assignment to an object
\* that c holds is no step of c).
Moves(c) == hs'[c].pos # hs[c].pos

\* The handler of call c hands its merged document to the store in this step.
Merging(c) ==
    hs[c].op = "setProperties" /\ hs[c].pos = "read" /\ hs'[c].pos = "update"

\* C15, as stated: the document setProperties stores has, for each of the six
\* merged properties, the value the request supplied when it supplied one,
\* and else the value of the document the handler was handed (the default when
\* the account had no document).
C15_SuppliedReplaces ==
    [][\A c \in Calls :
         Merging(c) =>
            LET req   == hs[c].req[1]
                after == svc'[hs[c].account]
            IN  /\ after # None
                /\ \A f \in MergedFields :
                      after[1][f] = IF req.props[f] # None
                                    THEN req.props[f] ELSE ReadBy(c)[f]
      ]_vars

\* C15, amended: the document setProperties stores has, for each of
\* deleteRetentionPolicy, hourMetrics, logging, minuteMetrics and
\* staticWebsite, the value the request supplied when it supplied one, and
\* else the value of the document the handler was handed (the default when the
\* account had no document); defaultServiceVersion has the supplied value when
\* a non-empty one is supplied, and else that document's value: an empty
\* version string is treated as not supplied.
C15_SuppliedNonEmptyReplaces ==
    [][\A c \in Calls :
         Merging(c) =>
            LET req   == hs[c].req[1]
                after == svc'[hs[c].account]
            IN  /\ after # None
                /\ \A f \in MergedFields \ {"defaultServiceVersion"} :
                      after[1][f] = IF req.props[f] # None
                                    THEN req.props[f] ELSE ReadBy(c)[f]
                /\ after[1].defaultServiceVersion =
                      IF req.props.defaultServiceVersion \notin {None, Some("")}
                      THEN req.props.defaultServiceVersion
                      ELSE ReadBy(c).defaultServiceVersion
      ]_vars

\* A request that supplied only hourMetrics was merged into a stored document
\* whose other properties had been set before: they are still there.
C15_Witness ==
    \E c \in Calls :
        /\ hs[c].op = "setProperties" /\ hs[c].pos = "update"
        /\ hs[c].cur # None
        /\ hs[c].req[1].props.hourMetrics # None
        /\ hs[c].req[1].props.logging = None
        /\ svc[hs[c].account] # None
        /\ LET after == svc[hs[c].account][1]
           IN  /\ after.hourMetrics = hs[c].req[1].props.hourMetrics
               /\ after.logging = Some(Logging(FALSE, TRUE, FALSE))
               /\ after.deleteRetentionPolicy # None
               /\ after.defaultServiceVersion = Some("2018-03-28")

\* C16: the document setProperties stores has the supplied CORS list, empty or
\* not, when the request body has a CORS element, and the rules of the document
\* the handler was handed (the default, none, when the account had no
\* document), when it has none, whatever the deserialiser made of the missing
\* element.
C16_CorsReplacedIffPresent ==
    [][\A c \in Calls :
         Merging(c) =>
            /\ svc'[hs[c].account] # None
            /\ svc'[hs[c].account][1].cors =
                  IF hs[c].req[1].corsKey # None
                  THEN hs[c].req[1].props.cors ELSE ReadBy(c).cors
      ]_vars

\* Stored rules were replaced by an empty list.
C16_Witness ==
    \E c \in Calls :
        /\ hs[c].op = "setProperties" /\ hs[c].pos = "update"
        /\ hs[c].cur # None
        /\ hs[c].cur[1].cors = Some(<< "rule1" >>)
        /\ hs[c].req[1].corsKey # None
        /\ hs[c].req[1].props.cors = Some(<< >>)
        /\ svc[hs[c].account] # None
        /\ svc[hs[c].account][1].cors = Some(<< >>)

\* C17: getProperties that finds no stored document for the account answers
\* with the defaults (no CORS rules, hour and minute metrics disabled, logging
\* of read, write and delete enabled, static website disabled, the emulator's
\* API version as default service version), one that finds a document answers
\* with it as it is when the handler answers, and no step of getProperties changes a stored document or creates
\* one.
C17_DefaultsAndReadOnly ==
    [][\A c \in Calls :
         /\ (Moves(c) /\ "getProperties" \in {hs[c].op, hs'[c].op}) =>
               svc' = svc
         /\ (hs[c].op = "getProperties" /\ Moves(c)) =>
               /\ sret'.op = "getProperties"
               /\ sret'.account = hs[c].account
               /\ sret'.status = 200
               /\ hs[c].cur = None =>
                     LET res == sret'.res[1]
                     IN  /\ res.cors = Some(<< >>)
                         /\ res.hourMetrics[1].enabled = FALSE
                         /\ res.minuteMetrics[1].enabled = FALSE
                         /\ res.logging[1].read /\ res.logging[1].write
                         /\ res.logging[1].deleteProperty
                         /\ res.staticWebsite[1].enabled = FALSE
                         /\ res.defaultServiceVersion = Some(BLOB_API_VERSION)
               /\ hs[c].cur # None =>
                     \A f \in MergedFields \cup {"cors"} :
                         sret'.res[1][f] = hs[c].cur[1][f]
      ]_vars

\* getProperties answered with the defaults for an account that has no
\* document, while the other account has one with other values.
C17_Witness ==
    /\ sret.op = "getProperties"
    /\ sret.before = None
    /\ svc[sret.account] = None
    /\ sret.res[1].logging = Some(Logging(TRUE, TRUE, TRUE))
    /\ \E a \in Accounts : svc[a] # None /\ svc[a][1].logging # Some(Logging(TRUE, TRUE, TRUE))

\* The messages of a sequence of returned items that carry id and text.
Returns(items, id, text) ==
    \E k \in 1..Len(items) : items[k].messageId = id /\ items[k].messageText = text

\* C18: an enqueue whose encoded body is exactly 65,536 bytes is accepted, and
\* a following peek and a following dequeue return its text unchanged; an
\* enqueue of 65,537 encoded bytes is rejected with the request-body-too-large
\* error and stores nothing: the queue, the extent files, the descriptors and
\* the catalog's documents stay as they were.
C18_SizeBoundary ==
    /\ [](\A x \in TextsSize :
            LET r == enqueue(queue, nextMsg, now, x, None, None,
                             Descriptor("e1", 0, EncodedLength(x)))
            IN  /\ EncodedLength(x) = 65536 =>
                     /\ r.err = ""
                     /\ Returns(peek(r.queue, now, Some(32)).items, nextMsg + 1, x)
                     /\ Returns(dequeue(r.queue, now, Some(32), None).items,
                                nextMsg + 1, x)
                /\ EncodedLength(x) = 65537 =>
                     /\ r.err = "RequestBodyTooLarge"
                     /\ r.queue = queue)
    /\ [][qret'.op = "enqueue" /\ EncodedLength(qret'.text[1]) = 65537 =>
             /\ qret'.err = "RequestBodyTooLarge"
             /\ qret'.items = << >>
             /\ UNCHANGED <<queue, nextMsg, pool, appended, refs, data, maxId>>
       ]_vars
    /\ [][qret'.op \in {"peek", "dequeue"} =>
             \A k \in 1..Len(qret'.items) :
                 \E j \in 1..Len(queue) :
                     /\ queue[j].messageId = qret'.items[k].messageId
                     /\ queue[j].messageText = qret'.items[k].messageText
       ]_vars

\* A dequeue has returned a message of 65,536 bytes in two-byte characters,
\* stored in an extent of that size.
C18_Witness ==
    /\ qret.op = "dequeue"
    /\ \E k \in 1..Len(qret.items) :
          /\ qret.items[k].messageText = Text("é", 32768)
          /\ qret.items[k].extent.count = 65536
    /\ Len(queue) = 1
    /\ nextMsg = 1

\* C19: dequeue returns up to numberOfMessages currently visible messages in
\* enqueue order, each with dequeueCount one higher than before and with the
\* messageId, insertionTime and expirationTime its enqueue returned; a message
\* dequeued with visibility timeout V, and a message enqueued with visibility
\* timeout V, is returned by no peek before V seconds have passed, the peek
\* issued at once included.
C19_DequeueOrderAndHiding ==
    /\ [](\A n \in {None, Some(1), Some(2)}, v \in {None, Some(1), Some(2)} :
            LET r      == dequeue(queue, now, n, v)
                V      == IF v = None THEN 30 ELSE v[1]
                want   == IF n = None THEN 1 ELSE n[1]
                shown  == { j \in 1..Len(queue) :
                              /\ queue[j].timeNextVisible <= now
                              /\ queue[j].expirationTime > now }
                pos(k) == CHOOSE j \in 1..Len(queue) :
                              queue[j].messageId = r.items[k].messageId
            IN  /\ r.err = ""
                /\ Len(r.items) = IF Cardinality(shown) < want
                                  THEN Cardinality(shown) ELSE want
                /\ \A k \in 1..Len(r.items) :
                      /\ pos(k) \in shown
                      /\ Cardinality({ j \in shown : j < pos(k) }) = k - 1
                      /\ r.items[k].dequeueCount = queue[pos(k)].dequeueCount + 1
                      /\ r.items[k].messageId = queue[pos(k)].messageId
                      /\ r.items[k].insertionTime = queue[pos(k)].insertionTime
                      /\ r.items[k].expirationTime = queue[pos(k)].expirationTime
                      /\ \A sec \in 0..(V - 1) :
                            LET seen == peek(r.queue, now + sec * 1000, Some(32)).items
                            IN  \A i \in 1..Len(seen) :
                                    seen[i].messageId # r.items[k].messageId)
    /\ [](\A a \in EnqueueArgs :
            LET r == enqueue(queue, nextMsg, now, Text("a", 11), a[1], a[2],
                             Descriptor("e1", 0, 11))
                V == IF a[2] = None THEN 0 ELSE a[2][1]
            IN  r.err = "" =>
                  \A sec \in 0..(V - 1) :
                      LET seen == peek(r.queue, now + sec * 1000, Some(32)).items
                      IN  \A i \in 1..Len(seen) : seen[i].messageId # nextMsg + 1)
    /\ [][/\ nextMsg' # nextMsg =>
                /\ qret'.op = "enqueue"
                /\ queue' = Append(queue, qret'.items[1])
          /\ \A i \in 1..Len(queue), j \in 1..Len(queue') :
                queue[i].messageId = queue'[j].messageId =>
                   /\ i = j
                   /\ queue'[j].insertionTime = queue[i].insertionTime
                   /\ queue'[j].expirationTime = queue[i].expirationTime
                   /\ qret'.op # "dequeue" =>
                         queue'[j].timeNextVisible = queue[i].timeNextVisible
          /\ qret'.op = "peek" =>
                \A k \in 1..Len(qret'.items) :
                    qret'.items[k].timeNextVisible <= now
       ]_vars

\* Two messages were dequeued together, one of them enqueued with a visibility
\* timeout that had to pass first, and the peek that followed at once returned
\* neither.
C19_Witness ==
    /\ qret.op = "peek"
    /\ qret.err = ""
    /\ qret.items = << >>
    /\ Len(queue) = 2
    /\ \A k \in 1..2 : queue[k].dequeueCount = 1 /\ queue[k].timeNextVisible > now
    /\ queue[1].timeNextVisible = queue[2].timeNextVisible
    /\ queue[2].insertionTime < now

\* C20: peek is read-only and ordered: it returns up to numberOfMessages (1
\* when omitted) visible messages, oldest first, with the text, messageId,
\* insertionTime, expirationTime and dequeueCount the queue holds (dequeueCount
\* 0 for a message never dequeued); it hides and removes nothing, so a dequeue
\* that follows returns the same messages; when fewer are visible than asked
\* for, all visible ones are returned; after clear, peek returns none.
C20_PeekReadOnlyOrdered ==
    /\ [](\A n \in {None, Some(1), Some(2), Some(32)} :
            LET r      == peek(queue, now, n)
                want   == IF n = None THEN 1 ELSE n[1]
                shown  == { j \in 1..Len(queue) :
                              /\ queue[j].timeNextVisible <= now
                              /\ queue[j].expirationTime > now }
                pos(k) == CHOOSE j \in 1..Len(queue) :
                              queue[j].messageId = r.items[k].messageId
                next   == dequeue(r.queue, now, n, None).items
            IN  /\ r.err = ""
                /\ r.queue = queue
                /\ Len(r.items) = IF Cardinality(shown) < want
                                  THEN Cardinality(shown) ELSE want
                /\ \A k \in 1..Len(r.items) :
                      /\ pos(k) \in shown
                      /\ Cardinality({ j \in shown : j < pos(k) }) = k - 1
                      /\ r.items[k] = queue[pos(k)]
                /\ Len(next) = Len(r.items)
                /\ \A k \in 1..Len(next) :
                      /\ next[k].messageId = r.items[k].messageId
                      /\ next[k].messageText = r.items[k].messageText
                /\ peek(<< >>, now, n).items = << >>)
    /\ [][/\ qret'.op = "peek" => UNCHANGED <<queue, nextMsg, pool, refs>>
          /\ qret'.op = "clear" => queue' = << >>
          /\ nextMsg' # nextMsg =>
                /\ Len(queue') = Len(queue) + 1
                /\ queue'[Len(queue')].dequeueCount = 0
                /\ queue'[Len(queue')].messageText = qret'.text[1]
          /\ \A i \in 1..Len(queue), j \in 1..Len(queue') :
                queue[i].messageId = queue'[j].messageId =>
                   /\ queue'[j].messageText = queue[i].messageText
                   /\ qret'.op # "dequeue" =>
                         queue'[j].dequeueCount = queue[i].dequeueCount
       ]_vars

\* A peek for two messages returned the only visible one, never dequeued,
\* while an older message was hidden by a dequeue.
C20_Witness ==
    /\ qret.op = "peek"
    /\ qret.n = Some(2)
    /\ Len(queue) = 2
    /\ Len(qret.items) = 1
    /\ qret.items[1] = queue[2]
    /\ queue[2].dequeueCount = 0
    /\ queue[1].dequeueCount = 1
    /\ queue[1].timeNextVisible > now

\* C21: an enqueue whose visibilitytimeout is not smaller than its
\* messageTimeToLive and a peek whose numberOfMessages is out of range each
\* return an error and leave the queue as it was, so that a peek afterwards
\* returns the stored messages with their messageId, insertionTime,
\* expirationTime and dequeueCount; a dequeue whose visibilitytimeout is larger
\* than a message's time to live is accepted and returns the message.
C21_RejectedLeaveQueue ==
    /\ [](\A a \in { <<Some(2), Some(2)>>, <<Some(2), Some(3)>>,
                     <<Some(30), Some(30)>> } :
            LET r == enqueue(queue, nextMsg, now, Text("a", 11), a[1], a[2],
                             Descriptor("e1", 0, 11))
                after == peek(r.queue, now, Some(32))
            IN  /\ r.err # ""
                /\ r.items = << >>
                /\ r.queue = queue
                /\ after.err = ""
                /\ after.items = peek(queue, now, Some(32)).items
                /\ \A k \in 1..Len(after.items) :
                      \E j \in 1..Len(queue) : after.items[k] = queue[j])
    /\ [](\A n \in { Some(0), Some(33), Some(100) } :
            LET r == peek(queue, now, n)
                after == peek(r.queue, now, Some(32))
            IN  /\ r.err # ""
                /\ r.items = << >>
                /\ r.queue = queue
                /\ after.err = ""
                /\ \A k \in 1..Len(after.items) :
                      \E j \in 1..Len(queue) : after.items[k] = queue[j]
                /\ \A j \in 1..Len(queue) :
                      (queue[j].timeNextVisible <= now /\ queue[j].expirationTime > now)
                         => \E k \in 1..Len(after.items) : after.items[k] = queue[j])
    /\ [](\A v \in { None, Some(3), Some(40) } :
            LET r == dequeue(queue, now, Some(32), v)
                V == IF v = None THEN 30 ELSE v[1]
            IN  /\ r.err = ""
                /\ \A j \in 1..Len(queue) :
                      (/\ queue[j].timeNextVisible <= now
                       /\ queue[j].expirationTime > now
                       /\ queue[j].expirationTime - queue[j].insertionTime < V * 1000)
                         => \E k \in 1..Len(r.items) :
                               r.items[k].messageId = queue[j].messageId)
    /\ [][(qret'.op \in {"enqueue", "peek"} /\ qret'.err # "") =>
             /\ qret'.items = << >>
             /\ UNCHANGED <<queue, nextMsg, pool, appended, refs, data, maxId>>
       ]_vars

\* An enqueue with visibility timeout equal to its time to live was rejected
\* while the queue held a message that a dequeue had hidden for longer than
\* the message lives.
C21_Witness ==
    /\ qret.op = "enqueue"
    /\ qret.err # ""
    /\ qret.ttl = Some(2)
    /\ qret.vis = Some(2)
    /\ Len(queue) = 1
    /\ queue[1].dequeueCount = 1
    /\ queue[1].timeNextVisible > queue[1].expirationTime

\* C22: after any sequence of updateExtent and deleteExtent calls (each runs
\* from its find to its insert, update or removal without yielding, so every
\* interleaving of concurrent calls is a sequence) the catalog holds at most
\* one record per extent id, and exactly one for the id of an updateExtent
\* that has just returned, also when the id was absent before an earlier call.
C22_OneRecordPerId ==
    /\ \A i, j \in 1..Len(data) : data[i].id = data[j].id => i = j
    /\ (ret.op = "updateExtent" /\ ret.err = "") =>
          Cardinality({ k \in 1..Len(data) : data[k].id = ret.id }) = 1

\* The second updateExtent for an id that was absent before the first has
\* returned: the one record has the first call's placement and the second
\* call's size, and a record was deleted before (three inserts, two records).
C22_Witness ==
    /\ ret.op = "updateExtent"
    /\ ret.err = ""
    /\ Len(data) = 2
    /\ \E k \in 1..2 :
          /\ data[k].id = ret.id
          /\ data[k].path # ret.ext[1].path
          /\ data[k].size = ret.ext[1].size
          /\ data[k].loki = 3

\* C23: listExtents with marker m returns only records whose sequence number
\* is greater than m, in ascending sequence order, and with no marker it starts
\* from the matching record of lowest sequence number: a matching record is
\* left out only when the page is full and the record comes after the page.
\* Sequence numbers are handed out in increasing insertion order and never
\* again after a delete, so a record inserted after a page was returned has a
\* number above that page's nextMarker.
C23_MarkerSemantics ==
    /\ [](/\ \A k \in 1..(Len(data) - 1) : data[k].loki < data[k + 1].loki
          /\ \A k \in 1..Len(data) : data[k].loki <= maxId
          /\ (ret.op = "listExtents" /\ ret.err = "") =>
                LET q == ret.q
                    U == IF q.UnmodifiedTime = None THEN 0 ELSE q.UnmodifiedTime[1]
                    n == Len(ret.docs)
                    match == { k \in 1..Len(data) :
                                 /\ (q.id # None => data[k].id = q.id[1])
                                 /\ (q.queryTime # None =>
                                        data[k].LastModifyInMS < q.queryTime[1] - U * 1000)
                                 /\ (q.marker # None => data[k].loki > q.marker[1]) }
                IN  /\ \A k \in 1..n :
                          /\ q.marker # None => ret.docs[k].loki > q.marker[1]
                          /\ k < n => ret.docs[k].loki < ret.docs[k + 1].loki
                          /\ \E j \in match : data[j] = ret.docs[k]
                    /\ \A j \in match :
                          (\A k \in 1..n : ret.docs[k].loki # data[j].loki) =>
                             /\ n = LimitOf(q.maxResults)
                             /\ n > 0 => data[j].loki > ret.docs[n].loki
                    /\ ret.next # None => ret.next[1] <= maxId)
    /\ [][/\ maxId' >= maxId
          /\ \A j \in 1..Len(data') :
                (\A i \in 1..Len(data) : data[i].loki # data'[j].loki) =>
                   /\ data'[j].loki > maxId
                   /\ (ret.op = "listExtents" /\ ret.next # None) =>
                         data'[j].loki > ret.next[1]
       ]_vars

\* A call with marker 1 returned the record numbered 3: the record numbered 2
\* was deleted, and the record inserted after it did not get its number.
C23_Witness ==
    /\ ret.op = "listExtents"
    /\ ret.q.marker = Some(1)
    /\ ret.q.id = None
    /\ ret.q.queryTime = None
    /\ Len(ret.docs) = 1
    /\ ret.docs[1].loki = 3
    /\ Len(data) = 2
    /\ data[1].loki = 1

\* C24: a restart aside, init() sets its flags (initialized true, closed
\* false) only when it resumes after its save succeeded; it asks for that save
\* after the collection exists, and that after the backing file, when there is
\* one, was loaded; a missing file is no error; when the load or the save
\* fails, init rejects and leaves the flags as they were, so a catalog that
\* was not initialized stays so.
C24_InitOrder ==
    [][/\ ((initialized' /\ ~initialized) \/
           (closed /\ ~closed' /\ ret'.op # "crash")) =>
             /\ pc = "mark" /\ pc' = "idle"
             /\ hasColl
             /\ ret'.op = "init" /\ ret'.err = ""
             /\ initialized' /\ ~closed'
       /\ (pc' = "mark" /\ pc # "mark") =>
             /\ pc = "save"
             /\ hasColl
             /\ sav # None /\ disk' = sav[1].file
             /\ ret' = ret
       /\ (pc' = "save" /\ pc # "save") =>
             /\ pc = "resume"
             /\ hasColl'
             /\ sav' # None /\ sav'[1].file = Serialized(data', maxId')
       /\ (pc' = "resume" /\ pc # "resume") =>
             \/ /\ pc = "load"
                /\ hasColl'
                /\ data' = disk[1].data /\ maxId' = disk[1].maxId
             \/ /\ pc = "stat"
                /\ disk = None
                /\ ret' = ret
       /\ (pc = "stat" /\ pc' # "stat" /\ ret'.op # "crash") =>
             pc' = IF disk = None THEN "resume" ELSE "load"
       /\ (ret' # ret /\ ret'.op = "init" /\ ret'.err # "") =>
             /\ pc \in {"load", "save"}
             /\ initialized' = initialized
             /\ closed' = closed
             /\ pc' = "idle"
      ]_vars

\* The save of an init() failed on a catalog not initialized before: the
\* collection loaded from the backing file is in memory and the catalog is not
\* marked initialized.
C24_Witness ==
    /\ ret.op = "init"
    /\ ret.err = "saveError"
    /\ ~initialized
    /\ hasColl
    /\ disk # None
    /\ data = disk[1].data
    /\ data # << >>

\* C25: updateExtent and deleteExtent for id X leave every record with another
\* id as it was, fields and sequence number, and in its place among them;
\* updateExtent on an existing id keeps that record's sequence number;
\* listExtents and getExtentPersistencyId change nothing of the catalog.
C25_MutationFrame ==
    [][LET others(ds, x) == Filter(ds, { k \in 1..Len(ds) : ds[k].id # x })
       IN  /\ ret'.op \in {"updateExtent", "deleteExtent"} =>
                 others(data', ret'.id) = others(data, ret'.id)
           /\ ret'.op = "updateExtent" =>
                 \A i \in 1..Len(data) :
                     data[i].id = ret'.id =>
                        /\ Len(data') = Len(data)
                        /\ data'[i].id = ret'.id
                        /\ data'[i].loki = data[i].loki
                        /\ maxId' = maxId
           /\ ret'.op \in {"listExtents", "getExtentPersistencyId"} =>
                 UNCHANGED <<data, maxId, dirty, disk, hasColl, initialized, closed>>
      ]_vars

\* An updateExtent for the older of two records has returned: the record has
\* the new size under its first sequence number and placement, and the other
\* record follows it.
C25_Witness ==
    /\ ret.op = "updateExtent"
    /\ Len(data) = 2
    /\ data[1].id = ret.id
    /\ data[1].loki = 1
    /\ data[1].size = ret.ext[1].size
    /\ data[1].path # ret.ext[1].path
    /\ data[2].id # ret.id
    /\ data[2].loki = 2

\* C26: after any sequence of updateExtent and deleteExtent calls no two
\* records of the catalog have the same placement, the pair of persistencyId
\* (the destination) and path.
C26_PlacementUnique ==
    \A i, j \in 1..Len(data) :
        (data[i].persistencyId = data[j].persistencyId /\ data[i].path = data[j].path)
           => i = j

-----------------------------------------------------------------------------
(* Properties of the request listener *)

\* C27: for every request the stages that run, run in the order access log,
\* storage context, dispatch, authentication, deserialization, handler,
\* serialization, error, end; the access log runs when enableAccessLog is true
\* and never otherwise; a request that no stage fails goes through every
\* stage but the error stage; no handler runs for a request before
\* authentication has run for it, and a request that fails authentication
\* never reaches a handler.
C27_PipelineOrder ==
    \A r \in Reqs :
        LET t     == rq[r].trace
            order == << "accessLog", "context", "dispatch", "authentication",
                        "deserializer", "handler", "serializer", "error", "end" >>
            at(x) == CHOOSE k \in 1..Len(order) : order[k] = x
            ran   == { t[k] : k \in 1..Len(t) }
        IN  /\ \A i, j \in 1..Len(t) : i < j => at(t[i]) < at(t[j])
            /\ Len(t) >= 1 =>
                  /\ app[1].enableAccessLog => t[1] = "accessLog"
                  /\ ~app[1].enableAccessLog => "accessLog" \notin ran /\ t[1] = "context"
            /\ (rq[r].st = "done" /\ rq[r].failed = "") =>
                  ran = { order[k] : k \in 1..Len(order) }
                           \ ({"error"} \cup IF app[1].enableAccessLog THEN {}
                                              ELSE {"accessLog"})
            /\ "handler" \in ran =>
                  /\ "authentication" \in ran
                  /\ \E i, j \in 1..Len(t) :
                        i < j /\ t[i] = "authentication" /\ t[j] = "handler"
                  /\ rq[r].failed \notin {"dispatch", "authentication", "deserializer"}
            /\ rq[r].failed = "authentication" => "handler" \notin ran

\* With the access log on, one request failed authentication and went from
\* there to the error stage and the end, and another one went through its
\* handler.
C27_Witness ==
    /\ rq["r1"].st = "done"
    /\ rq["r1"].failed = "authentication"
    /\ rq["r1"].trace = << "accessLog", "context", "dispatch", "authentication",
                           "error", "end" >>
    /\ rq["r2"].st = "done"
    /\ rq["r2"].failed = ""
    /\ Len(rq["r2"].trace) = 8

-----------------------------------------------------------------------------
(* Isolation of the accounts' service properties *)

\* C28: setProperties for one account never changes what getProperties returns
\* for another account, and no sequence of setProperties and getProperties
\* calls changes the defaults: the handler's default object keeps the value it
\* was constructed with, and getProperties for an account with no stored
\* document returns that value.
C28_AccountIsolation ==
    /\ [](/\ dflt = defaultServiceProperties
          /\ \A a \in Accounts :
                svc[a] = None =>
                   \A f \in MergedFields \cup {"cors"} :
                       getProperties(svc, a).res[f] = defaultServiceProperties[f])
    /\ [][\A c \in Calls :
             (Moves(c) /\ "setProperties" \in {hs[c].op, hs'[c].op}) =>
                \A b \in Accounts \ {hs[c].account, hs'[c].account} :
                    /\ svc'[b] = svc[b]
                    /\ (getProperties(svc, b).res)' = getProperties(svc, b).res
       ]_vars

\* setProperties has stored a document with other logging for the second
\* account while the first account has no document.
C28_Witness ==
    /\ sret.op = "setProperties"
    /\ sret.account = "account2"
    /\ sret.before = None
    /\ svc["account2"] # None
    /\ svc["account2"][1].logging = Some(Logging(FALSE, TRUE, FALSE))
    /\ svc["devstoreaccount1"] = None

====
